---- MODULE Spec2Model ----
(***************************************************************************)
(* Conversational Task Orchestration Core of context-kit-service:          *)
(* the Task state machine, the Session aggregate, the two session          *)
(* repositories, the send-message use case, the assistant session manager  *)
(* with its streaming protocol, and the bounded tool-calling agent loop.   *)
(***************************************************************************)
EXTENDS Integers, Sequences, FiniteSets, TLC

VARIABLES
    clock,      \* the wall clock read by datetime.now(timezone.utc)
    task,       \* SpecTask: one Task entity
    taskCall,   \* SpecTask: the last method called on it and how it ended
    agent,      \* SpecAgent: one LangChainAgent.invoke call (its locals)
    mgrSessions, \* SpecMgr: AssistantSessionManager._sessions, by session id
    mreq,       \* SpecMgr: the request the assistant endpoints are handling
    http,       \* SpecMgr: what the endpoint reported for the last request
    repo,       \* SpecRepo: one caller's run against each repository backend
    uc,         \* SpecSend: the use cases over one repository backend
    conc,       \* SpecConc: send-message calls in flight over one backend
    sess,       \* SpecSession: one Session object and a reader of its lists
    store,      \* SpecStore: one repository backend holding several sessions
    scan,       \* SpecScan: Backend B over a key space others write to as well
    lock,       \* SpecLock: Backend A called by several coroutines at a time
    reg,        \* SpecRegistry: a ToolRegistry and the last get_by_ids call
    build,      \* SpecBuild: one call that builds the messages sent to the provider
    sweep,      \* SpecSweep: the expiration sweep beside a send-message call
    wiring      \* SpecWiring: the repositories the API's dependencies hand to requests

taskVars == <<task, taskCall>>
mgrVars == <<mgrSessions, mreq, http>>
vars == <<clock, task, taskCall, agent, mgrSessions, mreq, http, repo, uc, conc, sess,
          store, scan, lock, reg, build, sweep, wiring>>

\* What the actions of one part leave alone.
notTask == <<agent, mgrVars, repo, uc, conc, sess, store, scan, lock, reg, build, sweep, wiring>>
notAgent == <<taskVars, mgrVars, repo, uc, conc, sess, store, scan, lock, reg, build, sweep, wiring>>
notMgr == <<taskVars, agent, repo, uc, conc, sess, store, scan, lock, reg, build, sweep, wiring>>
notRepo == <<taskVars, agent, mgrVars, uc, conc, sess, store, scan, lock, reg, build, sweep, wiring>>
notSend == <<taskVars, agent, repo, conc, sess, store, scan, lock, reg, build, sweep, wiring>>
notConc == <<taskVars, agent, mgrVars, repo, uc, sess, store, scan, lock, reg, build, sweep, wiring>>
notSession == <<taskVars, agent, mgrVars, repo, uc, conc, store, scan, lock, reg, build, sweep, wiring>>
notStore == <<taskVars, agent, mgrVars, repo, uc, conc, sess, scan, lock, reg, build, sweep, wiring>>
notScan == <<taskVars, agent, mgrVars, repo, uc, conc, sess, store, lock, reg, build, sweep, wiring>>
notLock == <<taskVars, agent, mgrVars, repo, uc, conc, sess, store, scan, reg, build, sweep, wiring>>
notRegistry == <<taskVars, agent, mgrVars, repo, uc, conc, sess, store, scan, lock, build, sweep, wiring>>
notBuild == <<taskVars, agent, mgrVars, repo, uc, conc, sess, store, scan, lock, reg, sweep, wiring>>
notSweep == <<taskVars, agent, mgrVars, repo, uc, conc, sess, store, scan, lock, reg, build, wiring>>
notWiring == <<taskVars, agent, mgrVars, repo, uc, conc, sess, store, scan, lock, reg, build, sweep>>

(***************************************************************************)
(* Bounds of the model.                                                    *)
(***************************************************************************)
MaxClock == 3
MaxOutputs == 3
MaxCallsPerResponse == 2    \* tool calls the provider requests in one response
MaxToolCalls == 6           \* tool calls the provider requests in one invoke
MaxSessions == 1            \* sessions the manager creates
MaxTasks == 2               \* tasks the manager holds, over all sessions
MaxChunks == 2              \* chunks the provider streams for one message
MaxHandles == 2             \* session objects one caller of a repository holds
MaxItems == 2               \* messages and tasks one session object holds
MaxCalls == 2               \* send-message calls in flight at one time
MaxAdds == 2                \* add_message and add_task calls on one Session
MaxViews == 2               \* lists one reader gets from a Session
MaxMutations == 1           \* changes the reader makes to the lists it got
MaxStored == 2              \* sessions one repository holds in SpecStore
MaxTouches == 1             \* messages added to those sessions, in all
MaxScanKeys == 2            \* session keys of the key space in SpecScan
MaxCoroutines == 2          \* coroutines calling Backend A at one time
MaxIds == 3                 \* names in one get_by_ids request

(***************************************************************************)
(* Time.  A timestamp is a positive integer; NoTime is Python's None in a  *)
(* datetime | None field.                                                  *)
(***************************************************************************)
NoTime == 0

\* The values one datetime.now() call may return: the clock does not run
\* backwards within one process run, and may stand still between two reads.
NowValues == {t \in {clock, clock + 1} : t <= MaxClock}

(***************************************************************************)
(* TaskStatus and TaskActionType value objects.                            *)
(***************************************************************************)
TaskStatus == {"pending", "streaming", "succeeded", "failed", "cancelled"}

is_terminal(status) == status \in {"succeeded", "failed", "cancelled"}

is_active(status) == status \in {"pending", "streaming"}

TaskActionType == {"prompt", "tool_execution", "pipeline_run", "file_read"}

(***************************************************************************)
(* Output records.  NoneOutput is the omitted argument of succeed(),       *)
(* EmptyDict the empty dict {}; both are falsy in Python.                  *)
(***************************************************************************)
NoneOutput == [type |-> "None"]
EmptyDict == [type |-> "{}"]

TextOutput(content) == [type |-> "text", content |-> content]
ErrorOutput(error) == [type |-> "error", content |-> error]

Truthy(output) == output \notin {NoneOutput, EmptyDict}

(***************************************************************************)
(* The Task entity.  Each method is an operator from the Task before the   *)
(* call to the Task after it and the exception raised ("none": returned).  *)
(***************************************************************************)
\* Task.__init__: outputs defaults to [] (outputs or []).
Task(task_id, action_type, status, created_at, first_response_at, completed_at, outputs) ==
    [task_id |-> task_id, action_type |-> action_type, status |-> status,
     created_at |-> created_at, first_response_at |-> first_response_at,
     completed_at |-> completed_at, outputs |-> outputs]

\* Task.create
TaskCreate(task_id, action_type, now) ==
    Task(task_id, action_type, "pending", now, NoTime, NoTime, <<>>)

\* A start() that lacks the status guard.
TaskStartUnguarded(t, now) ==
    [task |-> [t EXCEPT !.status = "streaming", !.first_response_at = now],
     raised |-> "none"]

\* Task.start
TaskStart(t, now) ==
    IF t.status # "pending"
    THEN [task |-> t, raised |-> "ValueError"]
    ELSE [task |-> [t EXCEPT !.status = "streaming", !.first_response_at = now],
          raised |-> "none"]

\* Task.succeed
TaskSucceed(t, output, now) ==
    [task |-> [t EXCEPT !.status = "succeeded", !.completed_at = now,
                        !.outputs = IF Truthy(output) THEN Append(@, output) ELSE @],
     raised |-> "none"]

\* A fail() that assigns a new outputs list.
TaskFailReplacing(t, error, now) ==
    [task |-> [t EXCEPT !.status = "failed", !.completed_at = now,
                        !.outputs = <<ErrorOutput(error)>>],
     raised |-> "none"]

\* Task.fail
TaskFail(t, error, now) ==
    [task |-> [t EXCEPT !.status = "failed", !.completed_at = now,
                        !.outputs = Append(@, ErrorOutput(error))],
     raised |-> "none"]

(***************************************************************************)
(* The Tool Registry: the names registered at process start.               *)
(***************************************************************************)
RegisteredTools ==
    {"context.read", "context.search", "pipeline.validate",
     "pipeline.build-graph", "pipeline.impact", "pipeline.generate"}

\* ToolRegistry.get: the tool, or None for a name that is not registered.
RegistryGet(tool_id) == IF tool_id \in RegisteredTools THEN tool_id ELSE "None"

(***************************************************************************)
(* The agent loop, LangChainAgent.invoke.                                  *)
(***************************************************************************)
max_iterations == 5

FallbackMessage ==
    "I apologize, but I reached the maximum number of tool calls without completing the task."
PlaceholderMessage == "I couldn't process that request."

SystemMessage(content) == [role |-> "system", content |-> content]
HumanMessage(content) == [role |-> "human", content |-> content]
AIMessage(content) == [role |-> "ai", content |-> content]
AIToolCallMessage(tool_calls) == [role |-> "ai", tool_calls |-> tool_calls]
ToolMessage(content, tool_call_id, name) ==
    [role |-> "tool", content |-> content, tool_call_id |-> tool_call_id, name |-> name]

\* LangChainAgent._build_messages, the history part: user and assistant
\* entries in order, every other role skipped.
RECURSIVE HistoryMessages(_)
HistoryMessages(chat_history) ==
    IF chat_history = <<>> THEN <<>>
    ELSE LET msg == Head(chat_history)
             rest == HistoryMessages(Tail(chat_history)) IN
         IF msg.role = "user" THEN <<HumanMessage(msg.content)>> \o rest
         ELSE IF msg.role = "assistant" THEN <<AIMessage(msg.content)>> \o rest
         ELSE rest

\* LangChainAgent._build_messages
AgentBuildMessages(system_prompt, message, chat_history) ==
    <<SystemMessage(system_prompt)>> \o HistoryMessages(chat_history)
        \o <<HumanMessage(message)>>

\* Leaving the for loop after max_iterations iterations.
AgentExhausted(a) == [a EXCEPT !.pc = "returned", !.result = FallbackMessage]

\* The end of one iteration's tool calls as a loop that is never left.
AgentNextIterationUnbounded(a) == [a EXCEPT !.pc = "llm"]

\* The end of one iteration's tool calls: the next iteration of
\* for iteration in range(max_iterations), or the loop's end.
AgentNextIteration(a) ==
    LET b == [a EXCEPT !.iteration = @ + 1] IN
    IF b.iteration < max_iterations THEN [b EXCEPT !.pc = "llm"]
    ELSE AgentExhausted(b)

\* No provider response yet, and no tool call handled yet.
NoLlmResponse == [content |-> "", tool_calls |-> <<>>]
NoToolCall == [outcome |-> "none", id |-> 0, name |-> "", error |-> ""]

AgentIdle ==
    [pc |-> "idle", iteration |-> 0, messages |-> <<>>, pending |-> <<>>,
     llmCalls |-> 0, toolCalls |-> 0, result |-> "", raised |-> "none",
     allToolCalls |-> TRUE, executed |-> 0,
     response |-> NoLlmResponse, tool |-> NoToolCall]

\* A final answer that is the response's text whatever it is.
AgentFinalResultRaw(content) == content

\* return response.content if response.content else "I couldn't process
\* that request."
AgentFinalResult(content) == IF content # "" THEN content ELSE PlaceholderMessage

\* The texts of the exceptions a tool raises.
ToolErrors == {"boom"}

\* Inputs of one invoke call.
ChatHistories ==
    {<<>>,
     <<[role |-> "user", content |-> "q0"], [role |-> "assistant", content |-> "a0"]>>,
     <<[role |-> "system", content |-> "s0"], [role |-> "user", content |-> "q0"]>>}

\* The tool calls one provider response may carry: 1..MaxCallsPerResponse
\* calls of registered and unregistered names, with ids fresh in this invoke.
ToolCallNames == {"context.read", "ghost.tool"}

CallLists(used) ==
    UNION {
        {[i \in 1..n |-> [name |-> names[i], id |-> used + i]] :
            names \in [1..n -> ToolCallNames]} :
        n \in {k \in 1..MaxCallsPerResponse : used + k <= MaxToolCalls}}

(***************************************************************************)
(* The assistant session manager and its endpoints.  A session is an       *)
(* AssistantSession (messages as dicts, tasks as TaskEnvelopes); its id is *)
(* its position in mgrSessions.                                            *)
(***************************************************************************)
TaskTimestamps(created, firstResponse, completed) ==
    [created |-> created, firstResponse |-> firstResponse, completed |-> completed]

TaskEnvelope(taskId, status, actionType, timestamps) ==
    [taskId |-> taskId, status |-> status, actionType |-> actionType,
     outputs |-> <<>>, timestamps |-> timestamps]

\* AssistantSession.__init__
AssistantSession(session_id, created_at) ==
    [session_id |-> session_id, messages |-> <<>>, tasks |-> <<>>,
     created_at |-> created_at]

\* AssistantSession.add_message
MgrAddMessage(session, role, content, metadata, now) ==
    [session EXCEPT !.messages =
        Append(@, [role |-> role, content |-> content, timestamp |-> now,
                   metadata |-> metadata])]

\* AssistantSession.add_task
MgrAddTask(session, t) == [session EXCEPT !.tasks = Append(@, t)]

\* AssistantSessionManager.get_session: the session, or None.
MgrGetSession(session_id) == session_id \in DOMAIN mgrSessions

\* chat_history = [msg for msg in session.messages[:-1]]
AllButLast(seq) == SubSeq(seq, 1, Len(seq) - 1)

NoRequest ==
    [kind |-> "none", pc |-> "idle", sid |-> 0, content |-> "", taskIdx |-> 0,
     taskId |-> 0, chat_history |-> <<>>, response_text |-> "", token_index |-> 0,
     chunks |-> 0, events |-> <<>>, invoked |-> FALSE,
     before |-> [type |-> "None"], provider_chunks |-> <<>>, statuses |-> <<>>]

NoResponse == [status |-> 0, cause |-> "none", error |-> ""]

\* The part of send_message and stream_message before the try block: the user
\* message and the new TaskEnvelope are added to the session.
MgrOpen(session, content, mode, task_id, firstResponse, now) ==
    MgrAddTask(
        MgrAddMessage(session, "user", content, [mode |-> mode], now),
        TaskEnvelope(task_id, "streaming", "prompt",
                     TaskTimestamps(now, firstResponse, NoTime)))

\* A send_message that marks the task succeeded and appends no assistant
\* message.
MgrSendSucceedNoReply(session, idx, response, now) ==
    [session EXCEPT
        !.tasks[idx].status = "succeeded",
        !.tasks[idx].timestamps.completed = now,
        !.tasks[idx].outputs =
            Append(@, [type |-> "text", content |-> response, timestamp |-> now])]

\* send_message after the agent returned: task succeeded, output and
\* assistant message appended.
MgrSendSucceed(session, idx, response, now) ==
    MgrAddMessage(
        [session EXCEPT
            !.tasks[idx].status = "succeeded",
            !.tasks[idx].timestamps.completed = now,
            !.tasks[idx].outputs =
                Append(@, [type |-> "text", content |-> response, timestamp |-> now])],
        "assistant", response, <<>>, now)

\* A stream that yields task.completed before the assistant message is
\* appended.
MgrStreamSucceedNoMessage(session, idx, response_text, now) ==
    [session EXCEPT
        !.tasks[idx].status = "succeeded",
        !.tasks[idx].timestamps.completed = now,
        !.tasks[idx].outputs = Append(@, [type |-> "text", content |-> response_text])]

\* stream_message after the last token: the same with the collected text.
MgrStreamSucceed(session, idx, response_text, now) ==
    MgrAddMessage(
        [session EXCEPT
            !.tasks[idx].status = "succeeded",
            !.tasks[idx].timestamps.completed = now,
            !.tasks[idx].outputs =
                Append(@, [type |-> "text", content |-> response_text])],
        "assistant", response_text, <<>>, now)

\* The except Exception block of send_message and stream_message.
MgrFail(session, idx, error, now) ==
    [session EXCEPT
        !.tasks[idx].status = "failed",
        !.tasks[idx].timestamps.completed = now,
        !.tasks[idx].outputs =
            Append(@, [type |-> "error", content |-> "Error: " \o error,
                       timestamp |-> now])]

\* The events of the streaming protocol.
StartedEvent(task_id, now) ==
    [type |-> "task.started", taskId |-> task_id, timestamp |-> now]
\* A token event numbered after token_index was incremented.
TokenEventOneBased(task_id, token, index, now) ==
    [type |-> "token", taskId |-> task_id, token |-> token, index |-> index + 1,
     timestamp |-> now]
TokenEvent(task_id, token, index, now) ==
    [type |-> "token", taskId |-> task_id, token |-> token, index |-> index,
     timestamp |-> now]
CompletedEvent(task_id, now) ==
    [type |-> "task.completed", taskId |-> task_id, timestamp |-> now]
FailedEvent(task_id, error, now) ==
    [type |-> "task.failed", taskId |-> task_id, error |-> error, timestamp |-> now]

\* An except block that does not end the generator: the completion event
\* follows the failure event.
StreamFailureEventsFallThrough(task_id, error, now) ==
    <<FailedEvent(task_id, error, now), CompletedEvent(task_id, now)>>

\* A stream that yields task.started before it looks the session up.
StreamNotFoundEventsStarted(error) ==
    <<[type |-> "task.started", taskId |-> 0, timestamp |-> NoTime],
      [type |-> "error", error |-> error]>>

\* endpoints/assistant.py event_generator, except ValueError: the one event
\* of a stream whose stream_message raised before its first yield.
StreamNotFoundEvents(error) == <<[type |-> "error", error |-> error]>>

\* What stream_message yields from its except Exception block.
StreamFailureEvents(task_id, error, now) == <<FailedEvent(task_id, error, now)>>

\* endpoints/assistant.py send_message: except ValueError -> 404, any other
\* exception -> 500.
EndpointStatus(exc, cause) == IF exc = "ValueError" THEN 404 ELSE 500

\* What session.agent.invoke may return (never the empty string) and the
\* exceptions it may raise: LangChainAgent.llm raises ValueError when the
\* provider is not configured; a provider call raises anything else.
AgentResults == {"answer", FallbackMessage}
ProviderErrors ==
    {[exc |-> "ValueError", text |-> "No API key found"],
     [exc |-> "Exception", text |-> "provider down"]}
Chunks == {"", "a", "b"}

(***************************************************************************)
(* The domain layer: identifiers, ProviderConfig, Message and Session.     *)
(* A uuid4() value is a UUID object and str() of it a string; the two are  *)
(* different Python values with the same digits.                           *)
(***************************************************************************)
Uuid(n) == [type |-> "UUID", hex |-> n]

\* str(uuid) and str(session_id): the digits as a string.  str() of a string
\* is that string.
StrOf(id) == [type |-> "str", hex |-> id.hex]

\* SessionId.from_string
SessionIdFromString(text) == [type |-> "UUID", hex |-> text.hex]

\* The store key of a session, str(session_id).
SessionKey(session_id) == StrOf(session_id).hex

\* A member of the AIProvider enum; member.value is its string.
AIProvider(value) == [type |-> "AIProvider", value |-> value]

\* ProviderConfig: a frozen dataclass, which keeps whatever object it is
\* given as provider.  (temperature and max_tokens are left out.)
ProviderConfig(provider, endpoint, model) ==
    [provider |-> provider, endpoint |-> endpoint, model |-> model]

\* ProviderConfig.for_ollama
ProviderConfigForOllama ==
    ProviderConfig(AIProvider("ollama"), "http://localhost:11434", "llama2")

\* Message.__init__
Message(message_id, role, content, timestamp, metadata) ==
    [message_id |-> message_id, role |-> role, content |-> content,
     timestamp |-> timestamp,
     metadata |-> IF Truthy(metadata) THEN metadata ELSE EmptyDict]

\* Message.create_user_message, Message.create_assistant_message
MessageCreate(message_id, role, content, metadata, now) ==
    Message(message_id, role, content, now, metadata)

\* Session.__init__
Session(session_id, user_id, provider_config, created_at) ==
    [session_id |-> session_id, user_id |-> user_id,
     provider_config |-> provider_config, messages |-> <<>>, tasks |-> <<>>,
     created_at |-> created_at, last_activity_at |-> created_at]

\* Session.add_message
SessionAddMessage(session, message, now) ==
    [session EXCEPT !.messages = Append(@, message), !.last_activity_at = now]

\* An add_task that leaves last_activity_at as it was.
SessionAddTaskNoTouch(session, t, now) == [session EXCEPT !.tasks = Append(@, t)]

\* A property that hands out the session's own list object.
SessionListOwn(session, kind) ==
    [kind |-> kind,
     items |-> IF kind = "messages" THEN session.messages ELSE session.tasks,
     shared |-> TRUE]

\* The Session.messages and Session.tasks properties: self._messages.copy(),
\* self._tasks.copy().  The list handed out has the items of the session's
\* list and is a list object of its own (shared tells whether a change to it
\* is a change to the session's list).
SessionList(session, kind) ==
    [kind |-> kind,
     items |-> IF kind = "messages" THEN session.messages ELSE session.tasks,
     shared |-> FALSE]

\* Session.add_task
SessionAddTask(session, t, now) ==
    [session EXCEPT !.tasks = Append(@, t), !.last_activity_at = now]

\* datetime.isoformat and datetime.fromisoformat
IsoFormat(t) == [iso |-> t]
FromIsoFormat(text) == text.iso

\* Session.get_conversation_history: a dict for every message, the newest
\* included.
GetConversationHistory(session) ==
    [i \in 1..Len(session.messages) |->
        [role |-> session.messages[i].role, content |-> session.messages[i].content,
         timestamp |-> IsoFormat(session.messages[i].timestamp)]]

\* None, for a session that is not there.
NoSession == [type |-> "None"]

(***************************************************************************)
(* Backend B, RedisSessionRepository: the key space maps a session key to  *)
(* the JSON text of the serialized session, or to NoData.                  *)
(***************************************************************************)
NoData == [type |-> "nil"]

\* json.dumps and json.loads
JsonDumps(data) == [json |-> data]
JsonLoads(text) == text.json

\* The dict _serialize_session builds, given the string it writes for the
\* provider.  A task's first_response_at and completed_at are not written.
SerializedData(session, provider) ==
    [session_id |-> StrOf(session.session_id),
     user_id |-> session.user_id,
     created_at |-> IsoFormat(session.created_at),
     last_activity_at |-> IsoFormat(session.last_activity_at),
     provider_config |->
        [provider |-> [type |-> "str", value |-> provider],
         model |-> session.provider_config.model,
         endpoint |-> session.provider_config.endpoint],
     messages |->
        [i \in 1..Len(session.messages) |->
            LET msg == session.messages[i] IN
            [message_id |-> StrOf(msg.message_id), role |-> msg.role,
             content |-> msg.content,
             timestamp |-> IsoFormat(msg.timestamp),
             metadata |-> msg.metadata]],
     tasks |->
        [i \in 1..Len(session.tasks) |->
            LET t == session.tasks[i] IN
            [task_id |-> StrOf(t.task_id), action_type |-> t.action_type,
             status |-> t.status,
             created_at |-> IsoFormat(t.created_at),
             outputs |-> t.outputs]]]

\* A serializer that writes str(provider) and so takes a plain string too.
SerializeSessionAnyProvider(session) ==
    [raised |-> "none",
     data |-> SerializedData(session, session.provider_config.provider.value)]

\* RedisSessionRepository._serialize_session.  provider.value is an
\* attribute of an AIProvider member; a plain string has none.
SerializeSession(session) ==
    IF session.provider_config.provider.type # "AIProvider"
    THEN [raised |-> "AttributeError", data |-> NoData]
    ELSE [raised |-> "none",
          data |-> SerializedData(session, session.provider_config.provider.value)]

\* RedisSessionRepository._deserialize_session
DeserializeSession(data) ==
    [Session(SessionIdFromString(data.session_id), data.user_id,
             ProviderConfig(data.provider_config.provider,
                            data.provider_config.endpoint,
                            data.provider_config.model),
             FromIsoFormat(data.created_at))
     EXCEPT
        !.last_activity_at = FromIsoFormat(data.last_activity_at),
        !.messages =
            [i \in 1..Len(data.messages) |->
                LET msg_data == data.messages[i] IN
                Message(msg_data.message_id, msg_data.role, msg_data.content,
                        FromIsoFormat(msg_data.timestamp), msg_data.metadata)],
        !.tasks =
            [i \in 1..Len(data.tasks) |->
                LET task_data == data.tasks[i] IN
                Task(task_data.task_id, task_data.action_type, task_data.status,
                     FromIsoFormat(task_data.created_at), NoTime, NoTime,
                     task_data.outputs)]]

\* RedisSessionRepository.save: the new key space and what was raised.
RedisSave(redis, session) ==
    LET serialized == SerializeSession(session) IN
    IF serialized.raised # "none"
    THEN [redis |-> redis, raised |-> serialized.raised]
    ELSE [redis |-> [redis EXCEPT ![SessionKey(session.session_id)] =
                        JsonDumps(serialized.data)],
          raised |-> "none"]

(***************************************************************************)
(* Records that cannot be read.  A value of the key space is JSON text     *)
(* ([json |-> value]) or text that is not JSON ([raw |-> text]).  A JSON   *)
(* object is a record of its members; any other JSON value carries a type  *)
(* field.  A string that is not an ISO timestamp is [text |-> string].     *)
(* The Raises operators give the exception a call raises, or "none".       *)
(***************************************************************************)
EmptyText == [raw |-> ""]

JsonLoadsRaises(text) ==
    IF "json" \in DOMAIN text THEN "none" ELSE "JSONDecodeError"

IsDict(value) == "type" \notin DOMAIN value

\* value[key]
GetItemRaises(value, key) ==
    IF ~IsDict(value) THEN "TypeError"
    ELSE IF key \notin DOMAIN value THEN "KeyError"
    ELSE "none"

\* value[key] for each of the keys in turn
RECURSIVE SubscriptsRaise(_, _)
SubscriptsRaise(value, keys) ==
    IF keys = <<>> THEN "none"
    ELSE IF GetItemRaises(value, Head(keys)) # "none"
         THEN GetItemRaises(value, Head(keys))
         ELSE SubscriptsRaise(value, Tail(keys))

\* datetime.fromisoformat(text)
FromIsoFormatRaises(text) ==
    IF "iso" \in DOMAIN text THEN "none"
    ELSE IF "text" \in DOMAIN text THEN "ValueError"
    ELSE "TypeError"

\* _deserialize_session(data): the first exception on its way
DeserializeRaises(data) ==
    IF SubscriptsRaise(data, <<"provider_config">>) # "none"
    THEN SubscriptsRaise(data, <<"provider_config">>)
    ELSE IF SubscriptsRaise(data.provider_config, <<"provider", "model", "endpoint">>) # "none"
    THEN SubscriptsRaise(data.provider_config, <<"provider", "model", "endpoint">>)
    ELSE IF SubscriptsRaise(data, <<"session_id", "user_id", "created_at">>) # "none"
    THEN SubscriptsRaise(data, <<"session_id", "user_id", "created_at">>)
    ELSE IF FromIsoFormatRaises(data.created_at) # "none"
    THEN FromIsoFormatRaises(data.created_at)
    ELSE IF SubscriptsRaise(data, <<"last_activity_at">>) # "none"
    THEN SubscriptsRaise(data, <<"last_activity_at">>)
    ELSE IF FromIsoFormatRaises(data.last_activity_at) # "none"
    THEN FromIsoFormatRaises(data.last_activity_at)
    ELSE SubscriptsRaise(data, <<"messages", "tasks">>)

\* json.loads(data) followed by _deserialize_session
RecordRaises(data) ==
    IF JsonLoadsRaises(data) # "none" THEN JsonLoadsRaises(data)
    ELSE DeserializeRaises(JsonLoads(data))

\* except (json.JSONDecodeError, KeyError, ValueError), in find_by_id and
\* in find_expired
CaughtErrors == {"JSONDecodeError", "KeyError", "ValueError"}

\* The exception that leaves find_by_id.
RedisFindByIdRaises(redis, session_id) ==
    LET data == redis[SessionKey(session_id)] IN
    IF data = NoData \/ RecordRaises(data) \in CaughtErrors
    THEN "none" ELSE RecordRaises(data)

\* RedisSessionRepository.find_by_id: what it returns when it returns.
RedisFindById(redis, session_id) ==
    LET data == redis[SessionKey(session_id)] IN
    IF data = NoData \/ RecordRaises(data) # "none"
    THEN NoSession ELSE DeserializeSession(JsonLoads(data))

\* What delete logs: redis.delete returns the number of keys it removed.
RedisDeleteEvent(redis, session_id) ==
    IF redis[SessionKey(session_id)] # NoData
    THEN "session_deleted" ELSE "session_delete_not_found"

\* A delete that empties the key space.
RedisDeleteFlush(redis, session_id) == [key \in DOMAIN redis |-> NoData]

\* RedisSessionRepository.delete
RedisDelete(redis, session_id) ==
    [redis EXCEPT ![SessionKey(session_id)] = NoData]

\* The body of find_expired's loop for the data read under one key: the
\* exception it raises, if any, and the session it appends, if any.
ScanRecordRaises(data, cutoff_time) ==
    IF JsonLoadsRaises(data) # "none" THEN JsonLoadsRaises(data)
    ELSE LET serialized == JsonLoads(data) IN
         IF GetItemRaises(serialized, "last_activity_at") # "none"
         THEN GetItemRaises(serialized, "last_activity_at")
         ELSE IF FromIsoFormatRaises(serialized.last_activity_at) # "none"
         THEN FromIsoFormatRaises(serialized.last_activity_at)
         ELSE IF FromIsoFormat(serialized.last_activity_at) < cutoff_time
         THEN DeserializeRaises(serialized)
         ELSE "none"

ScanRecord(data, cutoff_time) ==
    LET error == ScanRecordRaises(data, cutoff_time) IN
    [raised |-> IF error \in CaughtErrors THEN "none" ELSE error,
     expired |->
        IF error = "none"
           /\ FromIsoFormat(JsonLoads(data).last_activity_at) < cutoff_time
        THEN {DeserializeSession(JsonLoads(data))} ELSE {}]

\* if data: a missing key and an empty value are passed over
HasData(data) == data # NoData /\ data # EmptyText

\* RedisSessionRepository.find_expired: what it returns when it returns.
RedisFindExpired(redis, max_age_hours, now) ==
    LET cutoff_time == now - max_age_hours IN
    UNION {ScanRecord(redis[key], cutoff_time).expired :
              key \in {k \in DOMAIN redis : HasData(redis[k])}}

(***************************************************************************)
(* Backend A, InMemorySessionRepository: _sessions maps a session key to   *)
(* a Session object.  Objects live in a heap (a sequence of Session        *)
(* values) and are named by their position in it; 0 names no object.       *)
(***************************************************************************)
NoRef == 0

\* InMemorySessionRepository.save
MemorySave(sessions, heap, ref) ==
    [sessions EXCEPT ![SessionKey(heap[ref].session_id)] = ref]

\* InMemorySessionRepository.find_by_id: the stored object itself.
MemoryFindById(sessions, session_id) == sessions[SessionKey(session_id)]

\* What delete logs: the key is in _sessions or it is not.
MemoryDeleteEvent(sessions, session_id) ==
    IF sessions[SessionKey(session_id)] # NoRef
    THEN "session_deleted" ELSE "session_delete_not_found"

\* InMemorySessionRepository.delete
MemoryDelete(sessions, session_id) ==
    [sessions EXCEPT ![SessionKey(session_id)] = NoRef]

\* A sweep that takes a session idle for exactly max_age_hours as well.
MemoryFindExpiredInclusive(sessions, heap, max_age_hours, now) ==
    LET cutoff_time == now - max_age_hours IN
    {sessions[k] : k \in {key \in DOMAIN sessions :
                            /\ sessions[key] # NoRef
                            /\ heap[sessions[key]].last_activity_at <= cutoff_time}}

\* InMemorySessionRepository.find_expired
MemoryFindExpired(sessions, heap, max_age_hours, now) ==
    LET cutoff_time == now - max_age_hours IN
    {sessions[k] : k \in {key \in DOMAIN sessions :
                            /\ sessions[key] # NoRef
                            /\ heap[sessions[key]].last_activity_at < cutoff_time}}

\* InMemorySessionRepository.count
MemoryCount(sessions) == Cardinality({key \in DOMAIN sessions : sessions[key] # NoRef})

\* InMemorySessionRepository.clear
MemoryClear(sessions) == [key \in DOMAIN sessions |-> NoRef]

\* The session keys of the model: the sessions that are created and one id
\* that never is.
SessionKeys == 1..(MaxSessions + 1)

(***************************************************************************)
(* The application layer: SendMessageUseCase and CreateSessionUseCase over *)
(* one repository.  u is the state of the use cases: the backend with its  *)
(* store, and the locals of the call in progress.  With Backend A the      *)
(* local variable session names the stored object (u.ref); with Backend B  *)
(* it holds an object of its own (u.local).                                *)
(***************************************************************************)
\* repository.find_by_id as a reader sees it: the session, or NoSession.
UcStored(u, key) ==
    IF u.backend = "memory"
    THEN LET ref == MemoryFindById(u.sessions, Uuid(key)) IN
         IF ref = NoRef THEN NoSession ELSE u.heap[ref]
    ELSE RedisFindById(u.redis, Uuid(key))

\* The object the local variable session names.
UcSession(u) == IF u.backend = "memory" THEN u.heap[u.ref] ELSE u.local

\* A method call that changes that object.
UcMutate(u, session) ==
    IF u.backend = "memory"
    THEN [u EXCEPT !.heap[u.ref] = session]
    ELSE [u EXCEPT !.local = session]

\* await self._session_repository.save(session)
UcSave(u) ==
    IF u.backend = "memory"
    THEN [u |-> [u EXCEPT !.sessions = MemorySave(@, u.heap, u.ref)],
          raised |-> "none"]
    ELSE LET saved == RedisSave(u.redis, u.local) IN
         [u |-> [u EXCEPT !.redis = saved.redis], raised |-> saved.raised]

\* SendMessageUseCase.execute from the user message to task.start().
UcOpen(session, content, mode, message_id, task_id, now) ==
    LET with_message ==
            SessionAddMessage(session,
                MessageCreate(message_id, "user", content, [mode |-> mode], now), now)
        with_task ==
            SessionAddTask(with_message, TaskCreate(task_id, "prompt", now), now)
        idx == Len(with_task.tasks) IN
    [with_task EXCEPT !.tasks[idx] = TaskStart(@, now).task]

\* A success path that records no output on the task.
UcSucceedNoOutput(session, idx, response, message_id, now) ==
    LET with_reply ==
            SessionAddMessage(session,
                MessageCreate(message_id, "assistant", response, NoneOutput, now), now) IN
    [with_reply EXCEPT !.tasks[idx] = TaskSucceed(@, NoneOutput, now).task]

\* SendMessageUseCase.execute after ai_service.invoke returned: the
\* assistant message, then task.succeed(output).
UcSucceed(session, idx, response, message_id, now) ==
    LET with_reply ==
            SessionAddMessage(session,
                MessageCreate(message_id, "assistant", response, NoneOutput, now), now) IN
    [with_reply EXCEPT !.tasks[idx] = TaskSucceed(@, TextOutput(response), now).task]

\* SendMessageUseCase.execute, except Exception: task.fail(str(e)).
UcFail(session, idx, error, now) ==
    [session EXCEPT !.tasks[idx] = TaskFail(@, error, now).task]

(***************************************************************************)
(* LangChainAIAdapter, the implementation of the AI service port.          *)
(***************************************************************************)
\* The loop of _build_messages over objects that have a role attribute: a
\* user entry becomes a HumanMessage, an assistant entry a SystemMessage.
RECURSIVE AdapterHistoryMessages(_)
AdapterHistoryMessages(conversation_history) ==
    IF conversation_history = <<>> THEN <<>>
    ELSE LET msg == Head(conversation_history)
             rest == AdapterHistoryMessages(Tail(conversation_history)) IN
         IF msg.role = "user" THEN <<HumanMessage(msg.content)>> \o rest
         ELSE IF msg.role = "assistant" THEN <<SystemMessage(msg.content)>> \o rest
         ELSE rest

\* LangChainAIAdapter._build_messages.  msg.role is an attribute access: a
\* Message has the attribute, a dict (what get_conversation_history returns)
\* has not.
AdapterBuildMessages(prompt, conversation_history, system_prompt) ==
    IF \E i \in DOMAIN conversation_history :
            "message_id" \notin DOMAIN conversation_history[i]
    THEN [raised |-> "AttributeError", messages |-> <<>>]
    ELSE [raised |-> "none",
          messages |-> (IF system_prompt # "" THEN <<SystemMessage(system_prompt)>>
                        ELSE <<>>)
                          \o AdapterHistoryMessages(conversation_history)
                          \o <<HumanMessage(prompt)>>]

\* ", ".join(available_tools)
RECURSIVE JoinNames(_)
JoinNames(names) ==
    IF names = <<>> THEN ""
    ELSE IF Len(names) = 1 THEN names[1]
    ELSE names[1] \o ", " \o JoinNames(Tail(names))

\* f"\n\nAvailable tools: {', '.join(available_tools)}"
ToolContext(available_tools) == "\n\nAvailable tools: " \o JoinNames(available_tools)

\* The messages LangChainAIAdapter.invoke and stream hand to the provider:
\* _build_messages, then the tool context put into the system message, or a
\* system message put in front when there is no system prompt.
AdapterMessages(prompt, conversation_history, system_prompt, available_tools) ==
    LET built == AdapterBuildMessages(prompt, conversation_history, system_prompt)
        tool_context == ToolContext(available_tools) IN
    IF built.raised # "none" \/ available_tools = <<>> THEN built
    ELSE IF system_prompt # ""
    THEN [built EXCEPT !.messages[1] = SystemMessage(system_prompt \o tool_context)]
    ELSE [built EXCEPT !.messages =
            <<SystemMessage("You are a helpful assistant." \o tool_context)>> \o @]

(***************************************************************************)
(* The state of each part while another part's specification runs.         *)
(***************************************************************************)
NoCall == [op |-> "none", raised |-> "none", before |-> "none", arg |-> NoneOutput]

TaskParked ==
    /\ task = Task(1, "prompt", "pending", 1, NoTime, NoTime, <<>>)
    /\ taskCall = NoCall

AgentParked == agent = AgentIdle

MgrParked ==
    /\ mgrSessions = <<>>
    /\ mreq = [NoRequest EXCEPT !.pc = "parked"]
    /\ http = NoResponse

\* The use cases before any call.
NoUseCase ==
    [backend |-> "memory", heap |-> <<>>,
     sessions |-> [key \in SessionKeys |-> NoRef],
     redis |-> [key \in SessionKeys |-> NoData],
     created |-> 0, requests |-> 0, next_id |-> 1,
     op |-> "none", pc |-> "idle", sid |-> 0, content |-> "",
     ref |-> NoRef, local |-> NoSession, taskIdx |-> 0, before |-> NoSession,
     invoked |-> 0, response |-> "", error |-> "", cause |-> "none",
     raised |-> "none", statuses |-> <<>>, history |-> <<>>]

NoRepoCall ==
    [op |-> "none", key |-> 0, savedA |-> NoSession, savedB |-> NoSession,
     retA |-> [found |-> {}, raised |-> "none"],
     retB |-> [found |-> {}, raised |-> "none"]]

RepoEmpty ==
    [heap |-> <<>>, sessions |-> [key \in SessionKeys |-> NoRef],
     redis |-> [key \in SessionKeys |-> NoData],
     handlesA |-> <<>>, handlesB |-> <<>>, created |-> 0, next_id |-> 1,
     last |-> NoRepoCall]

RepoParked == repo = RepoEmpty

UcParked == uc = [NoUseCase EXCEPT !.pc = "parked"]

ConcParked == conc = [pc |-> "parked"]

SessionParked == sess = [pc |-> "parked"]
StoreParked == store = [pc |-> "parked"]
ScanParked == scan = [pc |-> "parked"]
LockParked == lock = [pc |-> "parked"]
RegistryParked == reg = [pc |-> "parked"]
BuildParked == build = [pc |-> "parked"]
SweepParked == sweep = [pc |-> "parked"]
WiringParked == wiring = [pc |-> "parked"]

InitAgent ==
    /\ WiringParked
    /\ SweepParked
    /\ BuildParked
    /\ clock = 1
    /\ TaskParked
    /\ MgrParked
    /\ RepoParked
    /\ UcParked
    /\ ConcParked
    /\ SessionParked
    /\ StoreParked
    /\ ScanParked
    /\ LockParked
    /\ RegistryParked
    /\ agent = AgentIdle

\* invoke(message, chat_history): messages = self._build_messages(...)
AgentInvoke ==
    /\ agent.pc = "idle"
    /\ \E chat_history \in ChatHistories :
          agent' = [agent EXCEPT
                       !.pc = "llm",
                       !.messages = AgentBuildMessages("sys", "q1", chat_history)]
    /\ UNCHANGED <<clock, notAgent>>

\* response = await self.llm.ainvoke(messages) raises (self.llm itself raises
\* ValueError when the provider is not configured): invoke propagates it.
AgentLlmRaises ==
    /\ agent.pc = "llm"
    /\ \E exc \in {"ValueError", "Exception"} :
          agent' = [agent EXCEPT !.pc = "raised", !.raised = exc,
                                 !.llmCalls = @ + 1, !.allToolCalls = FALSE]
    /\ UNCHANGED <<clock, notAgent>>

\* The response carries no tool calls: return response.content, or the
\* placeholder when it is empty.
AgentLlmFinal ==
    /\ agent.pc = "llm"
    /\ \E content \in {"", "answer"} :
          agent' = [agent EXCEPT
                       !.pc = "returned",
                       !.result = AgentFinalResult(content),
                       !.response = [content |-> content, tool_calls |-> <<>>],
                       !.llmCalls = @ + 1, !.allToolCalls = FALSE]
    /\ UNCHANGED <<clock, notAgent>>

\* The response carries tool calls: messages.append(response), then the
\* calls are executed one by one.
AgentLlmToolCalls ==
    /\ agent.pc = "llm"
    /\ \E calls \in CallLists(agent.toolCalls) :
          agent' = [agent EXCEPT
                       !.pc = "tools",
                       !.messages = Append(@, AIToolCallMessage(calls)),
                       !.pending = calls,
                       !.response = [content |-> "", tool_calls |-> calls],
                       !.llmCalls = @ + 1,
                       !.toolCalls = @ + Len(calls)]
    /\ UNCHANGED <<clock, notAgent>>

\* A pass of the for loop that leaves the calls after it undone.
AgentAfterCallSkipsRest(a) == AgentNextIteration([a EXCEPT !.pending = <<>>])

\* One pass of for tool_call in response.tool_calls; after the last call the
\* loop goes on to its next iteration.
AgentAfterCall(a) ==
    LET b == [a EXCEPT !.pending = Tail(@)] IN
    IF b.pending = <<>> THEN AgentNextIteration(b) ELSE b

\* What invoke has seen of one tool call.
ToolCallOutcome(call, outcome, error) ==
    [outcome |-> outcome, id |-> call.id, name |-> call.name, error |-> error]

\* An unregistered name that makes invoke raise.
AgentToolMissingRaises(a, call) ==
    [a EXCEPT !.pc = "raised", !.raised = "KeyError",
              !.tool = ToolCallOutcome(call, "missing", "")]

\* The else branch of if tool: the name is printed, nothing is appended.
AgentToolMissing(a, call) ==
    AgentAfterCall([a EXCEPT !.tool = ToolCallOutcome(call, "missing", "")])

\* A tool's exception that leaves invoke.
AgentToolFailedPropagates(a, call, error) ==
    [a EXCEPT !.pc = "raised", !.raised = error, !.executed = @ + 1,
              !.tool = ToolCallOutcome(call, "raised", error)]

\* except Exception as e: a ToolMessage with the error text is appended.
AgentToolFailed(a, call, error) ==
    AgentAfterCall(
        [a EXCEPT
            !.messages = Append(@, ToolMessage("Error executing tool: " \o error,
                                               call.id, call.name)),
            !.executed = @ + 1,
            !.tool = ToolCallOutcome(call, "raised", error)])

\* tool = registry.get(tool_name) is None: logged, nothing appended.
AgentToolNotFound ==
    /\ agent.pc = "tools"
    /\ RegistryGet(Head(agent.pending).name) = "None"
    /\ agent' = AgentToolMissing(agent, Head(agent.pending))
    /\ UNCHANGED <<clock, notAgent>>

\* await tool.ainvoke(tool_args) returns: its result is appended.
AgentToolReturns ==
    /\ agent.pc = "tools"
    /\ LET call == Head(agent.pending) IN
        /\ RegistryGet(call.name) # "None"
        /\ agent' = AgentAfterCall(
               [agent EXCEPT
                   !.messages = Append(@, ToolMessage("result", call.id, call.name)),
                   !.executed = @ + 1,
                   !.tool = ToolCallOutcome(call, "returned", "")])
    /\ UNCHANGED <<clock, notAgent>>

\* await tool.ainvoke(tool_args) raises: the error text is appended.
AgentToolRaises ==
    /\ agent.pc = "tools"
    /\ LET call == Head(agent.pending) IN
        /\ RegistryGet(call.name) # "None"
        /\ \E error \in ToolErrors : agent' = AgentToolFailed(agent, call, error)
    /\ UNCHANGED <<clock, notAgent>>

NextAgent ==
    \/ AgentInvoke
    \/ AgentLlmRaises
    \/ AgentLlmFinal
    \/ AgentLlmToolCalls
    \/ AgentToolNotFound
    \/ AgentToolReturns
    \/ AgentToolRaises

SpecAgent == InitAgent /\ [][NextAgent]_vars

\* The work one invoke call has left: strictly smaller after every step.
AgentMeasure ==
    LET K == MaxCallsPerResponse + 2 IN
    CASE agent.pc = "idle" -> (max_iterations + 1) * K
      [] agent.pc = "llm" -> (max_iterations - agent.iteration) * K
      [] agent.pc = "tools" ->
            (max_iterations - agent.iteration - 1) * K + Len(agent.pending) + 1
      [] OTHER -> 0

(***************************************************************************)
(* C4: invoke always terminates; it never makes more than 5 provider       *)
(* invocations, and when every response carries tool calls it makes        *)
(* exactly 5 and returns the fixed fallback message instead of raising.    *)
(***************************************************************************)
C4_AgentLoopBounded ==
    /\ [](agent.llmCalls <= 5)
    /\ []((agent.pc \in {"returned", "raised"} /\ agent.allToolCalls) =>
            /\ agent.pc = "returned"
            /\ agent.llmCalls = 5
            /\ agent.result = FallbackMessage)
    /\ [][AgentMeasure' < AgentMeasure /\ AgentMeasure' >= 0]_agent

C4_Witness ==
    /\ agent.pc = "returned"
    /\ agent.allToolCalls
    /\ agent.llmCalls = 5
    /\ agent.executed > 0
    /\ agent.toolCalls > agent.executed

\* The call the for loop is handling, and whether it is the last call of
\* the response.
CurrentCall == Head(agent.pending)
LastCallOfResponse == Len(agent.pending) = 1

\* After a call that is not the last of its response the next call of the
\* response is handled.
NextCallHandled ==
    ~LastCallOfResponse => agent'.pc = "tools" /\ agent'.pending = Tail(agent.pending)

\* After the last call of a response the provider is invoked again.
ProviderInvokedNext ==
    LastCallOfResponse => agent'.pc = "llm" /\ agent'.iteration = agent.iteration + 1

\* After the last call of a response the provider is invoked again, unless
\* the response was the fifth of this invoke: then invoke returns the
\* fallback message.
ProviderInvokedNextOrExhausted ==
    LastCallOfResponse
    => IF agent.iteration + 1 < max_iterations
       THEN agent'.pc = "llm" /\ agent'.iteration = agent.iteration + 1
       ELSE agent'.pc = "returned" /\ agent'.result = FallbackMessage

\* C27 as stated: a requested tool whose name is not registered makes
\* invoke neither raise nor stop; no tool-result message is appended for
\* the call, the remaining calls of the response are handled, and after
\* the last of them the provider is invoked again.
C27_NotFoundProceeds ==
    [][(agent.pc = "tools" /\ RegistryGet(CurrentCall.name) = "None")
       => /\ agent'.pc # "raised"
          /\ agent'.messages = agent.messages
          /\ agent'.executed = agent.executed
          /\ NextCallHandled
          /\ ProviderInvokedNext]_vars

\* C27 amended: as stated, except that after the last call of the fifth
\* response the provider is not invoked again and invoke returns the fixed
\* fallback message.
C27_NotFoundSkipped ==
    [][(agent.pc = "tools" /\ RegistryGet(CurrentCall.name) = "None")
       => /\ agent'.pc # "raised"
          /\ agent'.messages = agent.messages
          /\ agent'.executed = agent.executed
          /\ NextCallHandled
          /\ ProviderInvokedNextOrExhausted]_vars

\* A response asked for an unregistered tool and then for a registered one:
\* the second has been executed and the provider is about to be invoked.
C27_Witness ==
    /\ agent.pc = "llm"
    /\ Len(agent.response.tool_calls) = 2
    /\ RegistryGet(agent.response.tool_calls[1].name) = "None"
    /\ agent.tool.outcome = "returned"
    /\ agent.tool.id = agent.response.tool_calls[2].id
    /\ agent.messages[Len(agent.messages) - 1] = AIToolCallMessage(agent.response.tool_calls)

\* C28 as stated: a registered tool that raises makes invoke append a
\* tool-result message with the error text and the call's id, handle the
\* remaining calls of the response, invoke the provider again after the
\* last of them, and not raise.
C28_ToolErrorProceeds ==
    [][(agent.pc = "tools" /\ agent'.tool.outcome = "raised")
       => /\ agent'.pc # "raised"
          /\ agent'.messages =
                Append(agent.messages,
                       ToolMessage("Error executing tool: " \o agent'.tool.error,
                                   CurrentCall.id, CurrentCall.name))
          /\ NextCallHandled
          /\ ProviderInvokedNext]_vars

\* C28 amended: as stated, except that after the last call of the fifth
\* response the provider is not invoked again and invoke returns the fixed
\* fallback message.
C28_ToolErrorCaught ==
    [][(agent.pc = "tools" /\ agent'.tool.outcome = "raised")
       => /\ agent'.pc # "raised"
          /\ agent'.messages =
                Append(agent.messages,
                       ToolMessage("Error executing tool: " \o agent'.tool.error,
                                   CurrentCall.id, CurrentCall.name))
          /\ NextCallHandled
          /\ ProviderInvokedNextOrExhausted]_vars

\* The first tool of a response raised and the second returned: both
\* tool-result messages are there and the provider is about to be invoked.
C28_Witness ==
    /\ agent.pc = "llm"
    /\ Len(agent.response.tool_calls) = 2
    /\ LET calls == agent.response.tool_calls
           n == Len(agent.messages) IN
       /\ agent.messages[n - 1] =
             ToolMessage("Error executing tool: boom", calls[1].id, calls[1].name)
       /\ agent.messages[n] = ToolMessage("result", calls[2].id, calls[2].name)

\* C29: a provider response without tool calls ends invoke at once: the
\* result is the response's text, or the placeholder when the text is
\* empty; no tool is executed and no message appended for it, and nothing
\* happens after the return.
C29_FinalResponseReturns ==
    /\ [][(/\ agent.pc = "llm"
           /\ agent'.llmCalls = agent.llmCalls + 1
           /\ agent'.pc # "raised"
           /\ agent'.response.tool_calls = <<>>)
          => /\ agent'.pc = "returned"
             /\ agent'.result = IF agent'.response.content = ""
                                THEN PlaceholderMessage
                                ELSE agent'.response.content
             /\ agent'.executed = agent.executed
             /\ agent'.messages = agent.messages]_vars
    /\ [][agent.pc = "returned" => agent' = agent]_vars

\* After a response with tool calls, one with no tool calls and no text:
\* invoke has returned the placeholder.
C29_Witness ==
    /\ agent.pc = "returned"
    /\ agent.response = NoLlmResponse
    /\ agent.result = PlaceholderMessage
    /\ agent.llmCalls = 2
    /\ agent.executed > 0

(***************************************************************************)
(* C32: within one iteration the assistant's tool-call message is appended *)
(* before any tool result; the calls are executed one at a time in request *)
(* order, each registered call contributing exactly one tool-result        *)
(* message tagged with its own call id before the next call starts and     *)
(* before the provider is invoked again; the sequence only grows by        *)
(* appending.                                                              *)
(***************************************************************************)
\* The calls of the last response that invoke has gone through, and those of
\* them whose name is registered.
HandledCalls ==
    SubSeq(agent.response.tool_calls, 1,
           Len(agent.response.tool_calls) - Len(agent.pending))

RegisteredHandledCalls ==
    LET registered(call) == RegistryGet(call.name) # "None" IN
    SelectSeq(HandledCalls, registered)

ToolResultsOf(call) ==
    {i \in DOMAIN agent.messages :
        /\ agent.messages[i].role = "tool"
        /\ agent.messages[i].tool_call_id = call.id}

\* The sequence ends with the tool-call message of the last response and,
\* after it, one result per registered call gone through, in request order.
IterationInOrder ==
    LET calls == agent.response.tool_calls
        done == RegisteredHandledCalls
        M == agent.messages
        n == Len(done) IN
    calls # <<>> =>
        /\ Len(M) > n
        /\ M[Len(M) - n] = AIToolCallMessage(calls)
        /\ \A i \in 1..n :
              /\ M[Len(M) - n + i].role = "tool"
              /\ M[Len(M) - n + i].tool_call_id = done[i].id
              /\ M[Len(M) - n + i].name = done[i].name
              /\ Cardinality(ToolResultsOf(done[i])) = 1

\* Calls still to be gone through are a tail of the response's calls, and
\* the provider is not invoked while any is left.
OneCallAtATime ==
    /\ agent.pc = "tools" =>
          /\ agent.pending # <<>>
          /\ Len(agent.pending) <= Len(agent.response.tool_calls)
          /\ agent.pending =
                SubSeq(agent.response.tool_calls,
                       Len(agent.response.tool_calls) - Len(agent.pending) + 1,
                       Len(agent.response.tool_calls))
    /\ agent.pc = "llm" => agent.pending = <<>>

GrowsByAppending ==
    agent.pc # "idle" =>
        /\ Len(agent'.messages) >= Len(agent.messages)
        /\ SubSeq(agent'.messages, 1, Len(agent.messages)) = agent.messages
        /\ Len(agent'.messages) <= Len(agent.messages) + 1

C32_ToolCallsInOrder ==
    /\ [](IterationInOrder /\ OneCallAtATime)
    /\ [][GrowsByAppending]_vars

\* The second call of a response is about to start after the first, a
\* registered one, has put its result behind the tool-call message.
C32_Witness ==
    /\ agent.pc = "tools"
    /\ Len(agent.response.tool_calls) = 2
    /\ Len(agent.pending) = 1
    /\ agent.tool.outcome = "returned"
    /\ agent.iteration = 1
    /\ agent.messages[Len(agent.messages)].role = "tool"
    /\ agent.messages[Len(agent.messages)].tool_call_id = agent.response.tool_calls[1].id
    /\ agent.messages[Len(agent.messages) - 1] = AIToolCallMessage(agent.response.tool_calls)

(***************************************************************************)
(* SpecTask: a Task driven by arbitrary calls of its public methods.       *)
(***************************************************************************)
TaskOutputArgs == {NoneOutput, EmptyDict, TextOutput("r1")}
TaskErrorArgs == {"e1"}

\* A Task as its constructor can build it: Task.create gives pending with no
\* outputs, and the repository's deserializer passes any stored status and
\* the stored outputs, with no timestamps but created_at.
InitTask ==
    /\ WiringParked
    /\ SweepParked
    /\ BuildParked
    /\ clock = 1
    /\ \E st \in TaskStatus, outputs \in {<<>>, <<TextOutput("r0")>>} :
          task = Task(1, "prompt", st, 1, NoTime, NoTime, outputs)
    /\ taskCall = NoCall
    /\ AgentParked
    /\ MgrParked
    /\ RepoParked
    /\ UcParked
    /\ ConcParked
    /\ SessionParked
    /\ StoreParked
    /\ ScanParked
    /\ LockParked
    /\ RegistryParked

DoTaskStart ==
    \E now \in NowValues :
        LET r == TaskStart(task, now) IN
        /\ task' = r.task
        /\ taskCall' = [op |-> "start", raised |-> r.raised, before |-> task.status,
                        arg |-> NoneOutput]
        /\ clock' = now
        /\ UNCHANGED notTask

DoTaskSucceed ==
    \E now \in NowValues, output \in TaskOutputArgs :
        LET r == TaskSucceed(task, output, now) IN
        /\ Len(r.task.outputs) <= MaxOutputs
        /\ task' = r.task
        /\ taskCall' = [op |-> "succeed", raised |-> r.raised, before |-> task.status,
                        arg |-> output]
        /\ clock' = now
        /\ UNCHANGED notTask

DoTaskFail ==
    \E now \in NowValues, error \in TaskErrorArgs :
        LET r == TaskFail(task, error, now) IN
        /\ Len(r.task.outputs) <= MaxOutputs
        /\ task' = r.task
        /\ taskCall' = [op |-> "fail", raised |-> r.raised, before |-> task.status,
                        arg |-> [type |-> "str", content |-> error]]
        /\ clock' = now
        /\ UNCHANGED notTask

NextTask == DoTaskStart \/ DoTaskSucceed \/ DoTaskFail

SpecTask == InitTask /\ [][NextTask]_vars

(***************************************************************************)
(* C1: once a Task's status is succeeded, failed or cancelled, no later    *)
(* call of start(), succeed() or fail() changes its status.                *)
(***************************************************************************)
C1_TerminalIsFinal ==
    [][is_terminal(task.status) => task'.status = task.status]_vars

(***************************************************************************)
(* C2: start() changes the status only from pending (to streaming, with    *)
(* the first-response time recorded); in every other status it raises and  *)
(* leaves the Task as it was.                                              *)
(***************************************************************************)
C2_StartOnlyFromPending ==
    [][taskCall'.op = "start" =>
         IF task.status = "pending"
         THEN /\ taskCall'.raised = "none"
              /\ task'.status = "streaming"
              /\ task'.first_response_at = clock'
              /\ task'.first_response_at # NoTime
              /\ task'.outputs = task.outputs
              /\ task'.completed_at = task.completed_at
         ELSE /\ taskCall'.raised = "ValueError"
              /\ task' = task]_vars

C2_Witness ==
    /\ taskCall.op = "start"
    /\ taskCall.raised = "ValueError"
    /\ taskCall.before = "succeeded"
    /\ task.status = "succeeded"
    /\ Len(task.outputs) > 0

(***************************************************************************)
(* C17: succeed(output?) called on a pending or streaming Task returns     *)
(* with the Task succeeded and its completion time recorded, keeps the     *)
(* earlier outputs, and appends output as the new last record exactly when *)
(* an output is given; nothing is appended when it is omitted.             *)
(***************************************************************************)
C17_SucceedFromActive ==
    [][(taskCall'.op = "succeed" /\ is_active(task.status)) =>
         /\ taskCall'.raised = "none"
         /\ task'.status = "succeeded"
         /\ task'.completed_at = clock'
         /\ task'.completed_at # NoTime
         /\ task'.outputs = IF taskCall'.arg # NoneOutput
                            THEN Append(task.outputs, taskCall'.arg)
                            ELSE task.outputs]_vars

(***************************************************************************)
(* C18: fail(error) called on a Task that is not terminal returns with the *)
(* Task failed and its completion time recorded; the outputs are the       *)
(* earlier outputs, unchanged, and then one record {type: error, content:  *)
(* error}.                                                                 *)
(***************************************************************************)
C18_FailFromActive ==
    [][(taskCall'.op = "fail" /\ ~is_terminal(task.status)) =>
         /\ taskCall'.raised = "none"
         /\ task'.status = "failed"
         /\ task'.completed_at = clock'
         /\ task'.completed_at # NoTime
         /\ task'.outputs =
               Append(task.outputs, [type |-> "error", content |-> taskCall'.arg.content])]_vars

C18_Witness ==
    /\ taskCall.op = "fail"
    /\ taskCall.before = "streaming"
    /\ task.status = "failed"
    /\ Len(task.outputs) = 2
    /\ task.outputs[1] = TextOutput("r0")
    /\ task.outputs[2] = ErrorOutput("e1")

(***************************************************************************)
(* SpecMgr: the assistant endpoints over the session manager, one request  *)
(* at a time.  A request to the messages endpoint ends with http set; a    *)
(* request to the stream endpoint emits mreq.events until its generator    *)
(* is exhausted ("done") or its consumer goes away ("closed").             *)
(***************************************************************************)
InitMgr ==
    /\ WiringParked
    /\ SweepParked
    /\ BuildParked
    /\ clock = 1
    /\ TaskParked
    /\ AgentParked
    /\ RepoParked
    /\ UcParked
    /\ ConcParked
    /\ SessionParked
    /\ StoreParked
    /\ ScanParked
    /\ LockParked
    /\ RegistryParked
    /\ mgrSessions = <<>>
    /\ mreq = NoRequest
    /\ http = NoResponse

\* datetime.utcnow() as the session manager reads it.  Time stands still
\* in SpecMgr: a timestamp there records that the field was set.
MgrNowValues == {clock}

\* Tasks held by the manager, over all its sessions: one per request that
\* found its session.
RECURSIVE MgrTaskCount(_)
MgrTaskCount(sessions) ==
    IF sessions = <<>> THEN 0
    ELSE Len(Head(sessions).tasks) + MgrTaskCount(Tail(sessions))

\* The content of the next request: a text of its own for every request
\* that finds its session, so that a message can be told from earlier ones.
RequestContent == "q" \o ToString(MgrTaskCount(mgrSessions) + 1)

MgrQuiet == mreq.pc \in {"idle", "returned", "raised", "done", "closed"}

RequestIds == 1..(MaxSessions + 1)

\* POST /assistant/sessions: AssistantSessionManager.create_session
MgrCreateSession ==
    /\ MgrQuiet
    /\ Len(mgrSessions) < MaxSessions
    /\ \E now \in MgrNowValues :
        /\ mgrSessions' = Append(mgrSessions, AssistantSession(Len(mgrSessions) + 1, now))
        /\ clock' = now
    /\ mreq' = NoRequest
    /\ http' = [status |-> 200, cause |-> "ok", error |-> ""]
    /\ UNCHANGED notMgr

\* POST .../messages for an id get_session does not resolve: send_message
\* raises ValueError, which the endpoint reports.
EpSendNotFound ==
    /\ MgrQuiet
    /\ \E sid \in RequestIds :
      LET content == RequestContent IN
        /\ ~MgrGetSession(sid)
        /\ mreq' = [NoRequest EXCEPT !.kind = "send", !.pc = "raised", !.sid = sid,
                                     !.content = content]
        /\ http' = [status |-> EndpointStatus("ValueError", "not_found"),
                    cause |-> "not_found", error |-> "Session not found"]
    /\ UNCHANGED <<clock, notMgr, mgrSessions>>

\* POST .../messages for a known session, up to await session.agent.invoke.
EpSendBegin ==
    /\ MgrQuiet
    /\ \E sid \in RequestIds, now \in MgrNowValues :
      LET content == RequestContent IN
        /\ MgrGetSession(sid)
        /\ MgrTaskCount(mgrSessions) < MaxTasks
        /\ LET opened == MgrOpen(mgrSessions[sid], content, "general",
                                 Len(mgrSessions[sid].tasks) + 1, NoTime, now)
               idx == Len(opened.tasks)
               session == [opened EXCEPT !.tasks[idx].status = "streaming",
                                         !.tasks[idx].timestamps.firstResponse = now] IN
            /\ mgrSessions' = [mgrSessions EXCEPT ![sid] = session]
            /\ mreq' = [NoRequest EXCEPT
                           !.kind = "send", !.pc = "agent", !.sid = sid,
                           !.content = content, !.taskIdx = idx,
                           !.taskId = session.tasks[idx].taskId,
                           !.chat_history = AllButLast(session.messages),
                           !.invoked = TRUE, !.before = mgrSessions[sid],
                           !.statuses = <<opened.tasks[idx].status,
                                          session.tasks[idx].status>>]
        /\ clock' = now
    /\ http' = NoResponse
    /\ UNCHANGED notMgr

\* session.agent.invoke returned: the task succeeds and the endpoint answers.
EpSendAgentReturns ==
    /\ mreq.kind = "send" /\ mreq.pc = "agent"
    /\ \E response \in AgentResults, now \in MgrNowValues :
        /\ mgrSessions' = [mgrSessions EXCEPT ![mreq.sid] =
               MgrSendSucceed(@, mreq.taskIdx, response, now)]
        /\ mreq' = [mreq EXCEPT !.pc = "returned", !.response_text = response,
                                !.statuses = Append(@, mgrSessions'[mreq.sid].tasks[mreq.taskIdx].status)]
        /\ http' = [status |-> 200, cause |-> "ok", error |-> ""]
        /\ clock' = now
    /\ UNCHANGED notMgr

\* session.agent.invoke raised: the task fails, send_message re-raises and
\* the endpoint maps the exception to a status.
EpSendAgentRaises ==
    /\ mreq.kind = "send" /\ mreq.pc = "agent"
    /\ \E e \in ProviderErrors, now \in MgrNowValues :
        /\ mgrSessions' = [mgrSessions EXCEPT ![mreq.sid] =
               MgrFail(@, mreq.taskIdx, e.text, now)]
        /\ mreq' = [mreq EXCEPT !.pc = "raised",
                                !.statuses = Append(@, mgrSessions'[mreq.sid].tasks[mreq.taskIdx].status)]
        /\ http' = [status |-> EndpointStatus(e.exc, "provider"),
                    cause |-> "provider", error |-> e.text]
        /\ clock' = now
    /\ UNCHANGED notMgr

\* GET .../stream for an id get_session does not resolve: stream_message
\* raises ValueError on its first step and event_generator emits one error
\* event of its own.
EpStreamNotFound ==
    /\ MgrQuiet
    /\ \E sid \in RequestIds :
      LET content == RequestContent IN
        /\ ~MgrGetSession(sid)
        /\ mreq' = [NoRequest EXCEPT !.kind = "stream", !.pc = "raised", !.sid = sid,
                                     !.content = content,
                                     !.events = StreamNotFoundEvents("Session not found")]
        /\ http' = [status |-> 200, cause |-> "not_found",
                    error |-> "Session not found"]
    /\ UNCHANGED <<clock, notMgr, mgrSessions>>

\* GET .../stream for a known session, up to yield task.started.
EpStreamBegin ==
    /\ MgrQuiet
    /\ \E sid \in RequestIds, now \in MgrNowValues :
      LET content == RequestContent IN
        /\ MgrGetSession(sid)
        /\ MgrTaskCount(mgrSessions) < MaxTasks
        /\ LET session == MgrOpen(mgrSessions[sid], content, "general",
                                  Len(mgrSessions[sid].tasks) + 1, now, now)
               idx == Len(session.tasks)
               task_id == session.tasks[idx].taskId IN
            /\ mgrSessions' = [mgrSessions EXCEPT ![sid] = session]
            /\ mreq' = [NoRequest EXCEPT
                           !.kind = "stream", !.pc = "yielded", !.sid = sid,
                           !.content = content, !.taskIdx = idx, !.taskId = task_id,
                           !.chat_history = AllButLast(session.messages),
                           !.events = <<StartedEvent(task_id, now)>>,
                           !.before = mgrSessions[sid],
                           !.statuses = <<session.tasks[idx].status>>]
        /\ clock' = now
    /\ http' = [status |-> 200, cause |-> "ok", error |-> ""]
    /\ UNCHANGED notMgr

\* The consumer asks for the next event and the provider streams a chunk:
\* LangChainAgent.stream drops an empty chunk, stream_message yields a token
\* event for any other.
EpStreamChunk ==
    /\ mreq.kind = "stream" /\ mreq.pc = "yielded"
    /\ mreq.chunks < MaxChunks
    /\ \E chunk \in Chunks, now \in MgrNowValues :
        /\ mreq' =
              IF chunk = ""
              THEN [mreq EXCEPT !.chunks = @ + 1, !.invoked = TRUE,
                                !.provider_chunks = Append(@, chunk)]
              ELSE [mreq EXCEPT
                       !.chunks = @ + 1, !.invoked = TRUE,
                       !.provider_chunks = Append(@, chunk),
                       !.response_text = @ \o chunk,
                       !.events = Append(@, TokenEvent(mreq.taskId, chunk,
                                                       mreq.token_index, now)),
                       !.token_index = @ + 1]
        /\ clock' = now
    /\ UNCHANGED <<notMgr, mgrSessions, http>>

\* The provider's stream ends: the task succeeds, the assistant message is
\* appended and task.completed is yielded.
EpStreamEnd ==
    /\ mreq.kind = "stream" /\ mreq.pc = "yielded"
    /\ \E now \in MgrNowValues :
        /\ mgrSessions' = [mgrSessions EXCEPT ![mreq.sid] =
               MgrStreamSucceed(@, mreq.taskIdx, mreq.response_text, now)]
        /\ mreq' = [mreq EXCEPT !.pc = "terminal", !.invoked = TRUE,
                                !.statuses = Append(@, mgrSessions'[mreq.sid].tasks[mreq.taskIdx].status),
                                !.events = Append(@, CompletedEvent(mreq.taskId, now))]
        /\ clock' = now
    /\ UNCHANGED <<notMgr, http>>

\* The provider raises (before the first chunk or after some): the task
\* fails and task.failed is yielded.
EpStreamRaises ==
    /\ mreq.kind = "stream" /\ mreq.pc = "yielded"
    /\ \E e \in ProviderErrors, now \in MgrNowValues :
        /\ mgrSessions' = [mgrSessions EXCEPT ![mreq.sid] =
               MgrFail(@, mreq.taskIdx, e.text, now)]
        /\ mreq' = [mreq EXCEPT !.pc = "terminal", !.invoked = TRUE,
                                !.statuses = Append(@, mgrSessions'[mreq.sid].tasks[mreq.taskIdx].status),
                                !.events = @ \o StreamFailureEvents(mreq.taskId, e.text, now)]
        /\ clock' = now
    /\ UNCHANGED <<notMgr, http>>

\* The consumer asks for the event after the terminal one: the generator
\* returns.
EpStreamFinish ==
    /\ mreq.kind = "stream" /\ mreq.pc = "terminal"
    /\ mreq' = [mreq EXCEPT !.pc = "done"]
    /\ UNCHANGED <<clock, notMgr, mgrSessions, http>>

\* The consumer goes away while the generator is suspended at a yield:
\* GeneratorExit is no Exception, so the except block does not run.
EpStreamClose ==
    /\ mreq.kind = "stream" /\ mreq.pc \in {"yielded", "terminal"}
    /\ mreq' = [mreq EXCEPT !.pc = "closed"]
    /\ UNCHANGED <<clock, notMgr, mgrSessions, http>>

\* The tools POST .../tools/execute is asked for: a pipeline, the context
\* file reader, and a name the endpoint does not know.
ExecuteToolIds == {"pipeline.validate", "context.read", "ghost.tool"}

\* execute_tool before the try block: a pending tool-execution task is added.
MgrToolOpen(session, task_id, now) ==
    MgrAddTask(session,
               TaskEnvelope(task_id, "pending", "tool_execution",
                            TaskTimestamps(now, NoTime, NoTime)))

\* execute_tool where it sets task.status and task.timestamps.completed and,
\* on the two paths that have a result, appends it to task.outputs.
MgrToolEnd(session, idx, status, outputs, now) ==
    [session EXCEPT
        !.tasks[idx].status = status,
        !.tasks[idx].timestamps.completed = now,
        !.tasks[idx].outputs = @ \o outputs]

\* POST .../tools/execute for an id get_session does not resolve: 404.
EpToolNotFound ==
    /\ MgrQuiet
    /\ \E sid \in RequestIds, toolId \in ExecuteToolIds :
        /\ ~MgrGetSession(sid)
        /\ mreq' = [NoRequest EXCEPT !.kind = "tool", !.pc = "raised", !.sid = sid,
                                     !.content = toolId]
        /\ http' = [status |-> 404, cause |-> "not_found", error |-> "Session not found"]
    /\ UNCHANGED <<clock, notMgr, mgrSessions>>

\* POST .../tools/execute for a pipeline or the file reader, up to the await
\* of executor.run_pipeline or reader.read_file.
EpToolBegin ==
    /\ MgrQuiet
    /\ \E sid \in RequestIds, toolId \in {"pipeline.validate", "context.read"},
          now \in MgrNowValues :
        /\ MgrGetSession(sid)
        /\ MgrTaskCount(mgrSessions) < MaxTasks
        /\ LET session == MgrToolOpen(mgrSessions[sid],
                                      Len(mgrSessions[sid].tasks) + 1, now)
               idx == Len(session.tasks) IN
            /\ mgrSessions' = [mgrSessions EXCEPT ![sid] = session]
            /\ mreq' = [NoRequest EXCEPT
                           !.kind = "tool", !.pc = "tool", !.sid = sid,
                           !.content = toolId, !.taskIdx = idx,
                           !.taskId = session.tasks[idx].taskId,
                           !.before = mgrSessions[sid],
                           !.statuses = <<session.tasks[idx].status>>]
        /\ clock' = now
    /\ http' = NoResponse
    /\ UNCHANGED notMgr

\* POST .../tools/execute that fails before any await: the tool id is not
\* known, or context.read comes without a path (ValueError, caught).
EpToolFailsAtOnce ==
    /\ MgrQuiet
    /\ \E sid \in RequestIds, toolId \in {"ghost.tool", "context.read"},
          now \in MgrNowValues :
        /\ MgrGetSession(sid)
        /\ MgrTaskCount(mgrSessions) < MaxTasks
        /\ LET opened == MgrToolOpen(mgrSessions[sid],
                                     Len(mgrSessions[sid].tasks) + 1, now)
               idx == Len(opened.tasks)
               session == MgrToolEnd(opened, idx, "failed", <<>>, now) IN
            /\ mgrSessions' = [mgrSessions EXCEPT ![sid] = session]
            /\ mreq' = [NoRequest EXCEPT
                           !.kind = "tool", !.pc = "returned", !.sid = sid,
                           !.content = toolId, !.taskIdx = idx,
                           !.taskId = session.tasks[idx].taskId,
                           !.before = mgrSessions[sid],
                           !.statuses = <<opened.tasks[idx].status,
                                          session.tasks[idx].status>>]
        /\ clock' = now
    /\ http' = [status |-> 200, cause |-> "ok", error |-> ""]
    /\ UNCHANGED notMgr

\* The awaited pipeline or read returns: the task succeeds, or fails when
\* the pipeline reports no success, and its result is appended.
EpToolReturns ==
    /\ mreq.kind = "tool" /\ mreq.pc = "tool"
    /\ \E success \in (IF mreq.content = "context.read" THEN {TRUE} ELSE BOOLEAN),
          now \in MgrNowValues :
        /\ mgrSessions' = [mgrSessions EXCEPT ![mreq.sid] =
               MgrToolEnd(@, mreq.taskIdx,
                          IF success THEN "succeeded" ELSE "failed",
                          <<[type |-> IF mreq.content = "context.read"
                                      THEN "file_content" ELSE "pipeline_result"]>>,
                          now)]
        /\ mreq' = [mreq EXCEPT !.pc = "returned",
                                !.statuses = Append(@, mgrSessions'[mreq.sid].tasks[mreq.taskIdx].status)]
        /\ clock' = now
    /\ http' = [status |-> 200, cause |-> "ok", error |-> ""]
    /\ UNCHANGED notMgr

\* The awaited pipeline or read raises: except Exception marks the task
\* failed and the endpoint answers with the error.
EpToolRaises ==
    /\ mreq.kind = "tool" /\ mreq.pc = "tool"
    /\ \E now \in MgrNowValues :
        /\ mgrSessions' = [mgrSessions EXCEPT ![mreq.sid] =
               MgrToolEnd(@, mreq.taskIdx, "failed", <<>>, now)]
        /\ mreq' = [mreq EXCEPT !.pc = "returned",
                                !.statuses = Append(@, mgrSessions'[mreq.sid].tasks[mreq.taskIdx].status)]
        /\ clock' = now
    /\ http' = [status |-> 200, cause |-> "error", error |-> "boom"]
    /\ UNCHANGED notMgr

NextMgr ==
    \/ MgrCreateSession
    \/ EpSendNotFound
    \/ EpSendBegin
    \/ EpSendAgentReturns
    \/ EpSendAgentRaises
    \/ EpStreamNotFound
    \/ EpStreamBegin
    \/ EpStreamChunk
    \/ EpStreamEnd
    \/ EpStreamRaises
    \/ EpStreamFinish
    \/ EpStreamClose

SpecMgr == InitMgr /\ [][NextMgr]_vars

\* The assistant endpoints with the tool-execution endpoint among them.
NextTool ==
    \/ EpToolNotFound
    \/ EpToolBegin
    \/ EpToolFailsAtOnce
    \/ EpToolReturns
    \/ EpToolRaises

NextEndpoints == NextMgr \/ NextTool

SpecEndpoints == InitMgr /\ [][NextEndpoints]_vars

\* C33: every Task added by send_message, stream_message or the tool
\* execution endpoint is in a terminal status once the call has returned or
\* its event stream has ended, also when the stream's consumer stopped
\* reading before the final event.
C33_TasksEndTerminal ==
    MgrQuiet =>
        \A sid \in DOMAIN mgrSessions :
            \A i \in DOMAIN mgrSessions[sid].tasks :
                is_terminal(mgrSessions[sid].tasks[i].status)

TerminalEvents == {"task.completed", "task.failed"}

\* task.started first, then token events, then at most one terminal event
\* and nothing after it, all with one taskId.
StreamShape(events, task_id) ==
    /\ \A i \in 1..Len(events) :
        /\ events[i].taskId = task_id
        /\ events[i].type = "task.started" <=> i = 1
        /\ events[i].type \in {"task.started", "token"} \cup TerminalEvents
        /\ events[i].type \in TerminalEvents => i = Len(events)

\* C3: for every stream_message call on an existing session the events
\* emitted so far are task.started, then token events, then at most one
\* terminal event with nothing after it, all carrying the taskId of the
\* task the call added; task.started is out before the provider is asked,
\* and a stream that ran to its end has ended with exactly one terminal
\* event (task.completed or task.failed).
C3_StreamEventOrder ==
    (mreq.kind = "stream" /\ mreq.pc # "raised") =>
        /\ Len(mreq.events) >= 1
        /\ StreamShape(mreq.events, mgrSessions[mreq.sid].tasks[mreq.taskIdx].taskId)
        /\ mreq.pc \in {"terminal", "done"} =>
              /\ Len(mreq.events) >= 2
              /\ mreq.events[Len(mreq.events)].type \in TerminalEvents
        /\ mreq.pc = "yielded" =>
              mreq.events[Len(mreq.events)].type \notin TerminalEvents

C3_Witness ==
    /\ mreq.kind = "stream" /\ mreq.pc = "done"
    /\ Len(mreq.events) = 4
    /\ mreq.events[2].type = "token" /\ mreq.events[3].type = "token"
    /\ mreq.events[4].type = "task.failed"

\* C8: the endpoint reports an unknown session id and a provider or tool
\* failure differently: the 404 status is given to not-found only, and
\* not-found is never given the 500 status.
C8_NotFoundDistinguishable ==
    /\ http.status = 404 => http.cause = "not_found"
    /\ http.cause = "not_found" => http.status # 500

\* The last event a stream emitted, and the task its request added.
LastEvent == mreq.events[Len(mreq.events)]
RequestTask == mgrSessions[mreq.sid].tasks[mreq.taskIdx]

\* C12: a stream_message whose provider failed (before the first token or
\* after some) has raised nothing and ended with one task.failed event; the
\* event's error is the error text recorded in the failed task's error
\* output, the task's status is failed, and the session has the user
\* message as its last message, no assistant message after it.
C12_StreamFailureReported ==
    (/\ mreq.kind = "stream"
     /\ mreq.pc \in {"terminal", "done"}
     /\ LastEvent.type = "task.failed") =>
        LET outputs == RequestTask.outputs
            messages == mgrSessions[mreq.sid].messages IN
        /\ Cardinality({i \in DOMAIN mreq.events :
                            mreq.events[i].type = "task.failed"}) = 1
        /\ RequestTask.status = "failed"
        /\ Len(outputs) = 1
        /\ outputs[1].type = "error"
        /\ outputs[1].content = LastEvent.error
        /\ messages = Append(mreq.before.messages, messages[Len(messages)])
        /\ messages[Len(messages)].role = "user"

\* The token events among the events emitted so far, in emission order.
TokenEvents == SelectSeq(mreq.events, LAMBDA event : event.type = "token")

\* The fragments of text the provider generated: its chunks that carry
\* content (LangChainAgent.stream passes no chunk with empty content on).
ProviderFragments == SelectSeq(mreq.provider_chunks, LAMBDA chunk : chunk # "")

\* C13: in a stream_message event sequence the k-th token event carries
\* index k-1 (0, 1, 2, ... with no gap and no repeat), and the token events
\* carry, one each and in the provider's order, the fragments of text the
\* provider generated.
C13_TokenIndices ==
    (mreq.kind = "stream" /\ mreq.pc # "raised") =>
        /\ \A k \in DOMAIN TokenEvents : TokenEvents[k].index = k - 1
        /\ [k \in DOMAIN TokenEvents |-> TokenEvents[k].token] = ProviderFragments

C13_Witness ==
    /\ mreq.kind = "stream" /\ mreq.pc = "done"
    /\ Len(TokenEvents) = 2
    /\ TokenEvents[2].index = 1
    /\ TokenEvents[1].token # TokenEvents[2].token

\* The tokens of a sequence of token events, concatenated in order.
RECURSIVE ConcatTokens(_)
ConcatTokens(events) ==
    IF events = <<>> THEN ""
    ELSE Head(events).token \o ConcatTokens(Tail(events))

\* C14: once task.completed has been emitted, the request's task is
\* succeeded and the assistant message is the session's last message; the
\* message's content and the task's text output are the tokens of the
\* token events before it, concatenated in order.
C14_CompletedAfterAppend ==
    (/\ mreq.kind = "stream"
     /\ \E i \in DOMAIN mreq.events : mreq.events[i].type = "task.completed") =>
        LET messages == mgrSessions[mreq.sid].messages
            last == messages[Len(messages)] IN
        /\ LastEvent.type = "task.completed"
        /\ RequestTask.status = "succeeded"
        /\ RequestTask.timestamps.completed # NoTime
        /\ Len(messages) = Len(mreq.before.messages) + 2
        /\ last.role = "assistant"
        /\ last.content = ConcatTokens(TokenEvents)
        /\ RequestTask.outputs = <<[type |-> "text", content |-> ConcatTokens(TokenEvents)]>>

C14_Witness ==
    /\ mreq.kind = "stream" /\ mreq.pc = "closed"
    /\ LastEvent.type = "task.completed"
    /\ Len(TokenEvents) = 2
    /\ mgrSessions[mreq.sid].messages[2].content = "ab"

(***************************************************************************)
(* SpecRepo: one caller runs the same calls against Backend A and against  *)
(* Backend B.  The caller's variables are numbered handles: handlesA[h]    *)
(* names the object variable h holds in the run against A, handlesB[h] is  *)
(* the object it holds in the run against B, where find_by_id builds a new *)
(* object on every call.  repo.last is the last call with what each        *)
(* backend returned.                                                       *)
(***************************************************************************)
InitRepo ==
    /\ WiringParked
    /\ SweepParked
    /\ BuildParked
    /\ clock = 1
    /\ TaskParked
    /\ AgentParked
    /\ MgrParked
    /\ UcParked
    /\ ConcParked
    /\ SessionParked
    /\ StoreParked
    /\ ScanParked
    /\ LockParked
    /\ RegistryParked
    /\ repo = RepoEmpty

RepoHandles == 1..Len(repo.handlesA)

\* The handles that hold a session in both runs.
RepoLive == {h \in RepoHandles : repo.handlesA[h] # NoRef /\ repo.handlesB[h] # NoSession}

RepoItems(session) == Len(session.messages) + Len(session.tasks)

\* The tasks a caller adds: created, started, succeeded, failed.
RepoTasks(task_id, now) ==
    LET created == TaskCreate(task_id, "prompt", now)
        started == TaskStart(created, now).task IN
    {created, started, TaskSucceed(started, TextOutput("r"), now).task,
     TaskFail(started, "e", now).task}

Returned(found) == [found |-> found, raised |-> "none"]

\* s = Session.create(user_id, provider_config)
RepoCreate ==
    /\ repo.created < MaxSessions
    /\ Len(repo.handlesA) < MaxHandles
    /\ \E now \in NowValues :
        LET session == Session(Uuid(repo.created + 1), "u", ProviderConfigForOllama, now) IN
        /\ repo' = [repo EXCEPT
              !.heap = Append(@, session),
              !.handlesA = Append(@, Len(repo.heap) + 1),
              !.handlesB = Append(@, session),
              !.created = @ + 1,
              !.last = [NoRepoCall EXCEPT !.op = "create"]]
        /\ clock' = now
    /\ UNCHANGED notRepo

\* s.add_message(Message.create_user_message("m")) on a held object
RepoAddMessage ==
    /\ \E h \in RepoLive, now \in NowValues :
        /\ RepoItems(repo.heap[repo.handlesA[h]]) < MaxItems
        /\ RepoItems(repo.handlesB[h]) < MaxItems
        /\ LET message == MessageCreate(Uuid(repo.next_id), "user", "m", NoneOutput, now) IN
           repo' = [repo EXCEPT
              !.heap[repo.handlesA[h]] = SessionAddMessage(@, message, now),
              !.handlesB[h] = SessionAddMessage(@, message, now),
              !.next_id = @ + 1,
              !.last = [NoRepoCall EXCEPT !.op = "add_message"]]
        /\ clock' = now
    /\ UNCHANGED notRepo

\* s.add_task(t) on a held object
RepoAddTask ==
    /\ \E h \in RepoLive, now \in NowValues :
        /\ RepoItems(repo.heap[repo.handlesA[h]]) < MaxItems
        /\ RepoItems(repo.handlesB[h]) < MaxItems
        /\ \E t \in RepoTasks(Uuid(repo.next_id), now) :
           repo' = [repo EXCEPT
              !.heap[repo.handlesA[h]] = SessionAddTask(@, t, now),
              !.handlesB[h] = SessionAddTask(@, t, now),
              !.next_id = @ + 1,
              !.last = [NoRepoCall EXCEPT !.op = "add_task"]]
        /\ clock' = now
    /\ UNCHANGED notRepo

\* await repository.save(s)
RepoSave ==
    /\ \E h \in RepoLive :
        LET ref == repo.handlesA[h]
            saved == RedisSave(repo.redis, repo.handlesB[h]) IN
        repo' = [repo EXCEPT
           !.sessions = MemorySave(@, repo.heap, ref),
           !.redis = saved.redis,
           !.last = [op |-> "save", key |-> SessionKey(repo.heap[ref].session_id),
                     savedA |-> repo.heap[ref], savedB |-> repo.handlesB[h],
                     retA |-> Returned({}),
                     retB |-> [found |-> {}, raised |-> saved.raised]]]
    /\ UNCHANGED <<clock, notRepo>>

\* found = await repository.find_by_id(session_id)
RepoFindById ==
    /\ Len(repo.handlesA) < MaxHandles
    /\ \E key \in SessionKeys :
        LET ref == MemoryFindById(repo.sessions, Uuid(key))
            session == RedisFindById(repo.redis, Uuid(key)) IN
        repo' = [repo EXCEPT
           !.handlesA = Append(@, ref),
           !.handlesB = Append(@, session),
           !.last = [op |-> "find_by_id", key |-> key,
                     savedA |-> NoSession, savedB |-> NoSession,
                     retA |-> Returned(IF ref = NoRef THEN {} ELSE {repo.heap[ref]}),
                     retB |-> Returned(IF session = NoSession THEN {} ELSE {session})]]
    /\ UNCHANGED <<clock, notRepo>>

\* await repository.delete(session_id)
RepoDelete ==
    /\ \E key \in SessionKeys :
        repo' = [repo EXCEPT
           !.sessions = MemoryDelete(@, Uuid(key)),
           !.redis = RedisDelete(@, Uuid(key)),
           !.last = [NoRepoCall EXCEPT !.op = "delete", !.key = key]]
    /\ UNCHANGED <<clock, notRepo>>

\* await repository.find_expired(max_age_hours)
RepoFindExpired ==
    /\ \E max_age_hours \in {0, 1}, now \in NowValues :
        /\ repo' = [repo EXCEPT
              !.last = [NoRepoCall EXCEPT
                 !.op = "find_expired",
                 !.retA = Returned({repo.heap[ref] :
                             ref \in MemoryFindExpired(repo.sessions, repo.heap,
                                                       max_age_hours, now)}),
                 !.retB = Returned(RedisFindExpired(repo.redis, max_age_hours, now))]]
        /\ clock' = now
    /\ UNCHANGED notRepo

NextRepo ==
    \/ RepoCreate
    \/ RepoAddMessage
    \/ RepoAddTask
    \/ RepoSave
    \/ RepoFindById
    \/ RepoDelete
    \/ RepoFindExpired

SpecRepo == InitRepo /\ [][NextRepo]_vars

\* The fields of a session as == compares them: a member of AIProvider, a
\* str subclass, equals its value; a UUID and a string never are equal.
SessionFields(session) ==
    [session EXCEPT !.provider_config.provider = @.value]

\* C9: on both backends save(s) followed by find_by_id(s.id), for a session
\* with at least one message and at least one task, returns a session equal
\* to s field for field, nested messages and tasks included.
C9_RoundTrip ==
    [][(/\ repo.last.op = "save"
        /\ repo.last.retB.raised = "none"
        /\ Len(repo.last.savedA.messages) >= 1
        /\ Len(repo.last.savedA.tasks) >= 1
        /\ repo'.last.op = "find_by_id"
        /\ repo'.last.key = repo.last.key)
       => /\ {SessionFields(found) : found \in repo'.last.retA.found}
                = {SessionFields(repo.last.savedA)}
          /\ {SessionFields(found) : found \in repo'.last.retB.found}
                = {SessionFields(repo.last.savedB)}]_vars

\* A Task's completion time is set exactly when its status is terminal.
CompletionRecorded(t) == is_terminal(t.status) <=> t.completed_at # NoTime

AllCompletionsRecorded(session) ==
    \A i \in DOMAIN session.tasks : CompletionRecorded(session.tasks[i])

\* C37: every Task whose status is terminal has its completion timestamp
\* set and every Task whose status is pending or streaming has none, after
\* any sequence of task operations and for Tasks read back from the
\* repository.
C37_CompletionTimestamp ==
    /\ CompletionRecorded(task)
    /\ \A h \in RepoHandles :
          /\ repo.handlesA[h] # NoRef =>
                AllCompletionsRecorded(repo.heap[repo.handlesA[h]])
          /\ repo.handlesB[h] # NoSession =>
                AllCompletionsRecorded(repo.handlesB[h])
    /\ \A found \in repo.last.retA.found \cup repo.last.retB.found :
          AllCompletionsRecorded(found)

\* What a call returned, as its caller can tell.
Outcome(ret) ==
    [raised |-> ret.raised, found |-> {SessionFields(found) : found \in ret.found}]

\* C10: whatever calls the caller has made, the last one returned the same
\* from Backend A as from Backend B: the same exception or none, the same
\* found or not-found, sessions with the same contents.
C10_BackendsAgree == Outcome(repo.last.retA) = Outcome(repo.last.retB)

\* The record a save of session leaves under its key on Backend B.
SavedRecord(session) ==
    JsonDumps(SerializedData(session, session.provider_config.provider.value))

\* C21: save(session) is an idempotent full-overwrite upsert on both
\* backends: after save(s) the store holds under s's id the whole of s (on
\* A the object, on B its record) whatever it held before, the entries
\* under the other ids are as they were, and a second save of the same
\* session right after the first leaves the store as the first left it.
C21_SaveOverwrites ==
    [][repo'.last.op = "save"
       => LET key == repo'.last.key IN
          /\ repo'.sessions[key] # NoRef
          /\ repo'.heap[repo'.sessions[key]] = repo'.last.savedA
          /\ repo'.redis[key] = SavedRecord(repo'.last.savedB)
          /\ \A other \in SessionKeys \ {key} :
                /\ repo'.sessions[other] = repo.sessions[other]
                /\ repo'.redis[other] = repo.redis[other]
          /\ (/\ repo.last.op = "save"
              /\ repo.last.savedA = repo'.last.savedA
              /\ repo.last.savedB = repo'.last.savedB)
             => /\ repo'.sessions = repo.sessions
                /\ repo'.redis = repo.redis]_vars

(***************************************************************************)
(* SpecSend: sending a message, through either entry point.  A behaviour   *)
(* runs the assistant endpoints over the session manager (InitMgr) or the  *)
(* use cases over Backend A or Backend B (InitUc), one request at a time.  *)
(***************************************************************************)
InitUc ==
    /\ WiringParked
    /\ SweepParked
    /\ BuildParked
    /\ clock = 1
    /\ TaskParked
    /\ AgentParked
    /\ MgrParked
    /\ RepoParked
    /\ ConcParked
    /\ SessionParked
    /\ StoreParked
    /\ ScanParked
    /\ LockParked
    /\ RegistryParked
    /\ \E backend \in {"memory", "redis"} :
          uc = [NoUseCase EXCEPT !.backend = backend]

UcQuiet == uc.pc \in {"idle", "returned", "raised"}

\* The locals of a call that has not looked its session up yet.
UcCall(u, op) ==
    [u EXCEPT !.op = op, !.pc = "idle", !.sid = 0, !.content = "",
              !.ref = NoRef, !.local = NoSession, !.taskIdx = 0,
              !.before = NoSession, !.invoked = 0, !.response = "",
              !.error = "", !.cause = "none", !.raised = "none",
              !.statuses = <<>>, !.history = <<>>]

\* The content of the next send-message request, a text of its own.
UcContent == "q" \o ToString(uc.requests + 1)

\* CreateSessionUseCase.execute
UcCreateSession ==
    /\ UcQuiet
    /\ uc.created < MaxSessions
    /\ \E now \in NowValues :
        LET session == Session(Uuid(uc.created + 1), "u", ProviderConfigForOllama, now)
            called == [UcCall(uc, "create") EXCEPT
                          !.heap = IF uc.backend = "memory" THEN Append(@, session) ELSE @,
                          !.ref = IF uc.backend = "memory" THEN Len(uc.heap) + 1 ELSE NoRef,
                          !.local = IF uc.backend = "memory" THEN NoSession ELSE session,
                          !.created = @ + 1, !.sid = uc.created + 1]
            saved == UcSave(called) IN
        /\ uc' = [saved.u EXCEPT
                     !.pc = IF saved.raised = "none" THEN "returned" ELSE "raised",
                     !.raised = saved.raised]
        /\ clock' = now
    /\ UNCHANGED <<notSend, mgrVars>>

\* SendMessageUseCase.execute for an id find_by_id does not resolve.
UcSendNotFound ==
    /\ UcQuiet
    /\ \E key \in SessionKeys :
        /\ UcStored(uc, key) = NoSession
        /\ uc' = [UcCall(uc, "send") EXCEPT
                     !.pc = "raised", !.sid = key, !.content = UcContent,
                     !.raised = "ValueError", !.cause = "not_found",
                     !.error = "Session not found"]
    /\ UNCHANGED <<clock, notSend, mgrVars>>

\* SendMessageUseCase.execute for a stored session, up to
\* await self._ai_service.invoke.
UcSendBegin ==
    /\ UcQuiet
    /\ uc.requests < MaxTasks
    /\ \E key \in SessionKeys, now \in NowValues :
        /\ UcStored(uc, key) # NoSession
        /\ LET found == [UcCall(uc, "send") EXCEPT
                            !.ref = IF uc.backend = "memory"
                                    THEN MemoryFindById(uc.sessions, Uuid(key))
                                    ELSE NoRef,
                            !.local = IF uc.backend = "memory" THEN NoSession
                                      ELSE RedisFindById(uc.redis, Uuid(key))]
               session == UcOpen(UcSession(found), UcContent, "general",
                                 Uuid(uc.next_id), Uuid(uc.next_id + 1), now) IN
           uc' = [UcMutate(found, session) EXCEPT
                     !.pc = "invoke", !.sid = key, !.content = UcContent,
                     !.taskIdx = Len(session.tasks),
                     !.before = UcStored(uc, key),
                     !.statuses = <<TaskCreate(Uuid(uc.next_id + 1), "prompt", now).status,
                                    session.tasks[Len(session.tasks)].status>>,
                     !.history = GetConversationHistory(session),
                     !.invoked = 1, !.requests = @ + 1, !.next_id = @ + 2]
        /\ clock' = now
    /\ UNCHANGED <<notSend, mgrVars>>

\* ai_service.invoke returned: success path, then finally: save.
UcInvokeReturns ==
    /\ uc.pc = "invoke"
    /\ \E response \in AgentResults, now \in NowValues :
        LET session == UcSucceed(UcSession(uc), uc.taskIdx, response,
                                 Uuid(uc.next_id), now)
            saved == UcSave(UcMutate(uc, session)) IN
        /\ uc' = [saved.u EXCEPT
                     !.pc = IF saved.raised = "none" THEN "returned" ELSE "raised",
                     !.raised = saved.raised,
                     !.cause = IF saved.raised = "none" THEN "none" ELSE "save",
                     !.statuses = Append(@, session.tasks[uc.taskIdx].status),
                     !.response = response, !.next_id = @ + 1]
        /\ clock' = now
    /\ UNCHANGED <<notSend, mgrVars>>

\* ai_service.invoke raised e: task.fail(str(e)), raise, then finally: save.
\* An exception raised by save replaces e.
UcInvokeRaises ==
    /\ uc.pc = "invoke"
    /\ \E e \in ProviderErrors, now \in NowValues :
        LET session == UcFail(UcSession(uc), uc.taskIdx, e.text, now)
            saved == UcSave(UcMutate(uc, session)) IN
        /\ uc' = [saved.u EXCEPT
                     !.pc = "raised",
                     !.raised = IF saved.raised = "none" THEN e.exc ELSE saved.raised,
                     !.statuses = Append(@, session.tasks[uc.taskIdx].status),
                     !.cause = "provider", !.error = e.text]
        /\ clock' = now
    /\ UNCHANGED <<notSend, mgrVars>>

NextUc ==
    \/ UcCreateSession
    \/ UcSendNotFound
    \/ UcSendBegin
    \/ UcInvokeReturns
    \/ UcInvokeRaises

InitSend == InitMgr \/ InitUc

NextSend == NextMgr \/ NextUc

SpecSend == InitSend /\ [][NextSend]_vars

\* C5: when the provider raises during send_message on a stored session, the
\* caller gets the provider's error, and the repository then holds the
\* session with the new user message as its last message (no assistant
\* message) and one new Task, failed, whose last output is the error record
\* with the error text.
C5_ProviderFailureRecorded ==
    (uc.op = "send" /\ uc.pc = "raised" /\ uc.cause = "provider") =>
        LET before == uc.before
            after == UcStored(uc, uc.sid)
            n == Len(before.messages)
            k == Len(before.tasks) IN
        /\ \E e \in ProviderErrors : e.text = uc.error /\ e.exc = uc.raised
        /\ after # NoSession
        /\ Len(after.messages) = n + 1
        /\ after.messages[n + 1].role = "user"
        /\ after.messages[n + 1].content = uc.content
        /\ Len(after.tasks) = k + 1
        /\ after.tasks[k + 1].status = "failed"
        /\ Len(after.tasks[k + 1].outputs) >= 1
        /\ after.tasks[k + 1].outputs[Len(after.tasks[k + 1].outputs)]
              = ErrorOutput(uc.error)

\* C6: after a send_message that returned, the persisted session is the
\* session as it was before the call plus two messages at its end, the user
\* message with the given content and then the assistant message with the
\* provider's response, and plus one Task, of action prompt, succeeded, with
\* one text output whose content is the provider's response; through the
\* use case and through the session manager alike.
C6_SendAddsExchange ==
    /\ (uc.op = "send" /\ uc.pc = "returned") =>
          LET before == uc.before
              after == UcStored(uc, uc.sid)
              n == Len(before.messages)
              k == Len(before.tasks) IN
          /\ after # NoSession
          /\ Len(after.messages) = n + 2
          /\ SubSeq(after.messages, 1, n) = before.messages
          /\ after.messages[n + 1].role = "user"
          /\ after.messages[n + 1].content = uc.content
          /\ after.messages[n + 2].role = "assistant"
          /\ after.messages[n + 2].content = uc.response
          /\ Len(after.tasks) = k + 1
          /\ SubSeq(after.tasks, 1, k) = before.tasks
          /\ after.tasks[k + 1].action_type = "prompt"
          /\ after.tasks[k + 1].status = "succeeded"
          /\ after.tasks[k + 1].outputs = <<TextOutput(uc.response)>>
    /\ (mreq.kind = "send" /\ mreq.pc = "returned") =>
          LET before == mreq.before
              after == mgrSessions[mreq.sid]
              n == Len(before.messages)
              k == Len(before.tasks) IN
          /\ Len(after.messages) = n + 2
          /\ SubSeq(after.messages, 1, n) = before.messages
          /\ after.messages[n + 1].role = "user"
          /\ after.messages[n + 1].content = mreq.content
          /\ after.messages[n + 2].role = "assistant"
          /\ after.messages[n + 2].content = mreq.response_text
          /\ Len(after.tasks) = k + 1
          /\ SubSeq(after.tasks, 1, k) = before.tasks
          /\ after.tasks[k + 1].actionType = "prompt"
          /\ after.tasks[k + 1].status = "succeeded"
          /\ Len(after.tasks[k + 1].outputs) = 1
          /\ after.tasks[k + 1].outputs[1].type = "text"
          /\ after.tasks[k + 1].outputs[1].content = mreq.response_text

C6_Witness ==
    /\ uc.op = "send" /\ uc.pc = "returned" /\ uc.backend = "memory"
    /\ Len(uc.before.messages) = 2
    /\ Len(UcStored(uc, uc.sid).messages) = 4
    /\ UcStored(uc, uc.sid).tasks[2].status = "succeeded"

\* The events of the streaming protocol that a task emits.
TaskEvents == {"task.started", "token"} \cup TerminalEvents

\* C7: a send_message or stream_message request for an id that does not
\* resolve ends in the not-found condition and has no effect: the stored
\* sessions are as before (no Message, no Task), the provider is not
\* invoked, and no task.started, token or task.completed event is emitted.
C7_NotFoundBeforeAnyEffect ==
    [][/\ (/\ MgrQuiet
           /\ mreq'.kind # "none"
           /\ mreq'.sid \notin DOMAIN mgrSessions)
          => /\ mreq'.pc = "raised"
             /\ http'.cause = "not_found"
             /\ mgrSessions' = mgrSessions
             /\ ~mreq'.invoked
             /\ \A i \in DOMAIN mreq'.events : mreq'.events[i].type \notin TaskEvents
       /\ (/\ UcQuiet
           /\ uc'.op = "send"
           /\ UcStored(uc, uc'.sid) = NoSession)
          => /\ uc'.pc = "raised"
             /\ uc'.raised = "ValueError"
             /\ uc'.cause = "not_found"
             /\ uc'.invoked = 0
             /\ uc'.heap = uc.heap
             /\ uc'.sessions = uc.sessions
             /\ uc'.redis = uc.redis]_vars

C7_Witness ==
    /\ mreq.kind = "stream" /\ mreq.pc = "raised"
    /\ http.cause = "not_found"
    /\ mreq.sid \notin DOMAIN mgrSessions
    /\ Len(mgrSessions) >= 1
    /\ Len(mgrSessions[1].messages) >= 1

\* The statuses a task's status field has been given, the constructor's
\* first: pending, then streaming, then at most one terminal status.
LifeCycle(statuses) ==
    /\ Len(statuses) <= 3
    /\ Len(statuses) >= 1 => statuses[1] = "pending"
    /\ Len(statuses) >= 2 => statuses[2] = "streaming"
    /\ Len(statuses) >= 3 => is_terminal(statuses[3])

\* C15: the Task a send_message or stream_message call creates starts as
\* pending, is streaming when the provider is invoked, and ends in one
\* terminal status: the statuses it has been given are pending, streaming
\* and, once the call has finished, exactly one terminal status.
C15_TaskStatusHistory ==
    /\ (uc.op = "send" /\ uc.taskIdx # 0) =>
          /\ LifeCycle(uc.statuses)
          /\ Len(uc.statuses) >= 2
          /\ uc.pc \in {"returned", "raised"} => Len(uc.statuses) = 3
    /\ (mreq.kind \in {"send", "stream"} /\ mreq.taskIdx # 0) =>
          /\ LifeCycle(mreq.statuses)
          /\ Len(mreq.statuses) >= 2
          /\ mreq.pc \in {"returned", "raised", "terminal", "done"} =>
                Len(mreq.statuses) = 3

\* C35: a session that Backend B's find_by_id returned can be changed with
\* add_message and add_task and saved again without error: a send_message
\* on a session stored in Backend B persists its new message and its task.
C35_LoadedSessionSaves ==
    (/\ uc.backend = "redis"
     /\ uc.op = "send"
     /\ uc.taskIdx # 0
     /\ uc.pc \in {"returned", "raised"}) =>
        LET before == uc.before
            after == UcStored(uc, uc.sid)
            n == Len(before.messages)
            k == Len(before.tasks) IN
        /\ uc.raised \in {"none"} \cup {e.exc : e \in ProviderErrors}
        /\ after # NoSession
        /\ Len(after.messages) > n
        /\ after.messages[n + 1].role = "user"
        /\ after.messages[n + 1].content = uc.content
        /\ Len(after.tasks) = k + 1
        /\ is_terminal(after.tasks[k + 1].status)

\* How many entries of a sequence equal a value.
Count(seq, value) == Cardinality({i \in DOMAIN seq : seq[i] = value})

\* C16: the history handed to the provider is the session's message list as
\* it was before the call, without the user message just added, and the
\* message sequence built from it holds the new user message exactly once,
\* as its last entry; through the use case and through the session manager.
C16_HistoryExcludesNewMessage ==
    /\ (uc.op = "send" /\ uc.taskIdx # 0) =>
          LET built == AdapterBuildMessages(uc.content, uc.history, "sys") IN
          /\ uc.history = GetConversationHistory(uc.before)
          /\ built.raised = "none"
          /\ Count(built.messages, HumanMessage(uc.content)) = 1
          /\ built.messages[Len(built.messages)] = HumanMessage(uc.content)
    /\ (mreq.kind \in {"send", "stream"} /\ mreq.taskIdx # 0) =>
          LET built == AgentBuildMessages("sys", mreq.content, mreq.chat_history) IN
          /\ mreq.chat_history = mreq.before.messages
          /\ Count(built, HumanMessage(mreq.content)) = 1
          /\ built[Len(built)] = HumanMessage(mreq.content)

\* How many messages of a list have a role, and how many prompt tasks of a
\* list have one of some statuses (status and action type are named
\* action_type in a Task and actionType in a TaskEnvelope).
WithRole(messages, role) ==
    Cardinality({i \in DOMAIN messages : messages[i].role = role})

PromptTasks(tasks, statuses) ==
    Cardinality({i \in DOMAIN tasks :
        /\ tasks[i].status \in statuses
        /\ IF "action_type" \in DOMAIN tasks[i]
           THEN tasks[i].action_type = "prompt"
           ELSE tasks[i].actionType = "prompt"})

Balanced(session) ==
    /\ WithRole(session.messages, "user") = PromptTasks(session.tasks, TaskStatus)
    /\ WithRole(session.messages, "assistant")
          = PromptTasks(session.tasks, {"succeeded"})
    /\ PromptTasks(session.tasks, {"succeeded"}) = Len(session.tasks)
          => Len(session.messages) = 2 * Len(session.tasks)

\* C36: for a session used only through send_message and stream_message,
\* after every completed call the number of user messages equals the number
\* of prompt Tasks and the number of assistant messages equals the number of
\* succeeded prompt Tasks; n successful sends in a row leave 2n messages and
\* n succeeded tasks.
C36_MessagesMatchTasks ==
    /\ UcQuiet =>
          \A key \in SessionKeys :
              UcStored(uc, key) # NoSession => Balanced(UcStored(uc, key))
    /\ MgrQuiet =>
          \A sid \in DOMAIN mgrSessions : Balanced(mgrSessions[sid])

\* Two sends in a row have succeeded on one session: four messages and two
\* succeeded tasks, in the use case's repository or in the session manager.
C36_Witness ==
    \/ /\ uc.pc = "returned" /\ uc.op = "send"
       /\ Len(UcStored(uc, uc.sid).messages) = 4
       /\ PromptTasks(UcStored(uc, uc.sid).tasks, {"succeeded"}) = 2
    \/ /\ mreq.pc \in {"returned", "done"} /\ mreq.kind \in {"send", "stream"}
       /\ mreq.taskIdx = 2
       /\ Len(mgrSessions[mreq.sid].messages) = 4
       /\ PromptTasks(mgrSessions[mreq.sid].tasks, {"succeeded"}) = 2

(***************************************************************************)
(* SpecConc: SendMessageUseCase.execute calls in flight at the same time   *)
(* over one repository.  A call is suspended where it awaits the provider; *)
(* between two suspension points it runs alone.  conc.calls[c] holds the   *)
(* locals of call c; conc.done lists what each returned call recorded.     *)
(***************************************************************************)
NoConcCall ==
    [pc |-> "idle", sid |-> 0, ref |-> NoRef, local |-> NoSession, taskIdx |-> 0,
     user_message |-> 0, raised |-> "none"]

ConcCalls == 1..MaxCalls

\* datetime.now(timezone.utc) as the calls read it.  Time stands still in
\* SpecConc: a timestamp there records that the field was set.
ConcNowValues == {clock}

InitConc ==
    /\ WiringParked
    /\ SweepParked
    /\ BuildParked
    /\ clock = 1
    /\ TaskParked
    /\ AgentParked
    /\ MgrParked
    /\ RepoParked
    /\ UcParked
    /\ SessionParked
    /\ StoreParked
    /\ ScanParked
    /\ LockParked
    /\ RegistryParked
    /\ \E backend \in {"memory", "redis"} :
          conc = [pc |-> "running", backend |-> backend, heap |-> <<>>,
                  sessions |-> [key \in SessionKeys |-> NoRef],
                  redis |-> [key \in SessionKeys |-> NoData],
                  created |-> 0, started |-> 0, next_id |-> 1,
                  calls |-> [c \in ConcCalls |-> NoConcCall],
                  done |-> {}, overlap |-> FALSE]

\* The repository and the locals of call c, as the use-case operators take
\* them.
ConcView(cn, c) ==
    [backend |-> cn.backend, heap |-> cn.heap, sessions |-> cn.sessions,
     redis |-> cn.redis, ref |-> cn.calls[c].ref, local |-> cn.calls[c].local]

\* The use-case operators' result put back.
ConcUpdate(cn, c, u) ==
    [cn EXCEPT !.heap = u.heap, !.sessions = u.sessions, !.redis = u.redis,
               !.calls[c].ref = u.ref, !.calls[c].local = u.local]

ConcCallQuiet(c) == conc.calls[c].pc \in {"idle", "returned", "raised"}

\* CreateSessionUseCase.execute
ConcCreateSession ==
    /\ conc.created < MaxSessions
    /\ \E now \in ConcNowValues :
        LET session == Session(Uuid(conc.created + 1), "u", ProviderConfigForOllama, now)
            u == [backend |-> conc.backend,
                  heap |-> IF conc.backend = "memory" THEN Append(conc.heap, session)
                           ELSE conc.heap,
                  sessions |-> conc.sessions, redis |-> conc.redis,
                  ref |-> IF conc.backend = "memory" THEN Len(conc.heap) + 1 ELSE NoRef,
                  local |-> IF conc.backend = "memory" THEN NoSession ELSE session]
            saved == UcSave(u) IN
        /\ conc' = [conc EXCEPT !.heap = saved.u.heap, !.sessions = saved.u.sessions,
                                !.redis = saved.u.redis, !.created = @ + 1]
        /\ clock' = now
    /\ UNCHANGED notConc

\* Call c of SendMessageUseCase.execute, for a stored session, up to
\* await self._ai_service.invoke.
ConcSendBegin(c) ==
    /\ ConcCallQuiet(c)
    /\ conc.started < MaxTasks
    /\ \E key \in SessionKeys, now \in ConcNowValues :
        /\ UcStored(conc, key) # NoSession
        /\ LET found == [ConcView(conc, c) EXCEPT
                            !.ref = IF conc.backend = "memory"
                                    THEN MemoryFindById(conc.sessions, Uuid(key))
                                    ELSE NoRef,
                            !.local = IF conc.backend = "memory" THEN NoSession
                                      ELSE RedisFindById(conc.redis, Uuid(key))]
               session == UcOpen(UcSession(found), "q" \o ToString(conc.started + 1),
                                 "general", Uuid(conc.next_id),
                                 Uuid(conc.next_id + 1), now) IN
           conc' = [ConcUpdate(conc, c, UcMutate(found, session)) EXCEPT
                       !.calls[c].pc = "invoke", !.calls[c].sid = key,
                       !.calls[c].taskIdx = Len(session.tasks),
                       !.calls[c].user_message = conc.next_id,
                       !.calls[c].raised = "none",
                       !.started = @ + 1, !.next_id = @ + 2,
                       !.overlap = @ \/ \E d \in ConcCalls \ {c} :
                                          /\ conc.calls[d].pc = "invoke"
                                          /\ conc.calls[d].sid = key]
        /\ clock' = now
    /\ UNCHANGED notConc

\* Call c resumes with the provider's response: success path, then save.
ConcInvokeReturns(c) ==
    /\ conc.calls[c].pc = "invoke"
    /\ \E response \in AgentResults, now \in ConcNowValues :
        LET u == ConcView(conc, c)
            idx == conc.calls[c].taskIdx
            session == UcSucceed(UcSession(u), idx, response, Uuid(conc.next_id), now)
            saved == UcSave(UcMutate(u, session)) IN
        /\ conc' = [ConcUpdate(conc, c, saved.u) EXCEPT
                       !.calls[c].pc = IF saved.raised = "none" THEN "returned"
                                       ELSE "raised",
                       !.calls[c].raised = saved.raised,
                       !.next_id = @ + 1,
                       !.done = IF saved.raised # "none" THEN @
                                ELSE @ \cup {[key |-> conc.calls[c].sid,
                                              messages |-> {conc.calls[c].user_message,
                                                            conc.next_id},
                                              task |-> session.tasks[idx].task_id.hex]}]
        /\ clock' = now
    /\ UNCHANGED notConc

\* Call c resumes with the provider's exception: task.fail, raise, then save.
ConcInvokeRaises(c) ==
    /\ conc.calls[c].pc = "invoke"
    /\ \E e \in ProviderErrors, now \in ConcNowValues :
        LET u == ConcView(conc, c)
            session == UcFail(UcSession(u), conc.calls[c].taskIdx, e.text, now)
            saved == UcSave(UcMutate(u, session)) IN
        /\ conc' = [ConcUpdate(conc, c, saved.u) EXCEPT
                       !.calls[c].pc = "raised",
                       !.calls[c].raised = IF saved.raised = "none" THEN e.exc
                                           ELSE saved.raised]
        /\ clock' = now
    /\ UNCHANGED notConc

NextConc ==
    \/ ConcCreateSession
    \/ \E c \in ConcCalls : ConcSendBegin(c)
    \/ \E c \in ConcCalls : ConcInvokeReturns(c)
    \/ \E c \in ConcCalls : ConcInvokeRaises(c)

SpecConc == InitConc /\ [][NextConc]_vars

IsPrefix(s, t) == Len(s) <= Len(t) /\ SubSeq(t, 1, Len(s)) = s

\* What a find_by_id read shows of the two lists: the messages, and the
\* tasks by their ids (a task's status and outputs change while it runs).
ReadLists(session) ==
    [messages |-> session.messages,
     tasks |-> [i \in 1..Len(session.tasks) |-> session.tasks[i].task_id]]

InitSession ==
    /\ WiringParked
    /\ SweepParked
    /\ BuildParked
    /\ clock \in 1..2
    /\ TaskParked
    /\ AgentParked
    /\ MgrParked
    /\ RepoParked
    /\ UcParked
    /\ ConcParked
    /\ StoreParked
    /\ ScanParked
    /\ LockParked
    /\ RegistryParked
    /\ \E created_at \in 1..clock :
          sess = [pc |-> "running",
                  session |-> Session(Uuid(1), "u", ProviderConfigForOllama, created_at),
                  added_messages |-> <<>>, added_tasks |-> <<>>,
                  views |-> <<>>, mutations |-> 0, next_id |-> 1, op |-> "create"]

SessionAdds == Len(sess.added_messages) + Len(sess.added_tasks)

\* session.add_message(message)
DoAddMessage ==
    /\ SessionAdds < MaxAdds
    /\ \E now \in NowValues :
        LET message == MessageCreate(Uuid(sess.next_id), "user", "m", NoneOutput, now) IN
        /\ sess' = [sess EXCEPT
              !.session = SessionAddMessage(@, message, now),
              !.added_messages = Append(@, message),
              !.next_id = @ + 1, !.op = "add_message"]
        /\ clock' = now
    /\ UNCHANGED notSession

\* session.add_task(task)
DoAddTask ==
    /\ SessionAdds < MaxAdds
    /\ \E now \in NowValues :
        LET t == TaskCreate(Uuid(sess.next_id), "prompt", now) IN
        /\ sess' = [sess EXCEPT
              !.session = SessionAddTask(@, t, now),
              !.added_tasks = Append(@, t),
              !.next_id = @ + 1, !.op = "add_task"]
        /\ clock' = now
    /\ UNCHANGED notSession

\* view = session.messages, view = session.tasks
DoReadList ==
    /\ Len(sess.views) < MaxViews
    /\ \E kind \in {"messages", "tasks"} :
        sess' = [sess EXCEPT !.views = Append(@, SessionList(sess.session, kind)),
                             !.op = "read"]
    /\ UNCHANGED <<clock, notSession>>

RECURSIVE Reverse(_)
Reverse(seq) == IF seq = <<>> THEN <<>> ELSE Append(Reverse(Tail(seq)), Head(seq))

\* What a reader can make of a list it holds: view.reverse(), view.pop(),
\* view.clear(), view[0] = view[-1].
ListChanges(items) ==
    {Reverse(items), AllButLast(items), <<>>,
     [i \in DOMAIN items |-> IF i = 1 THEN items[Len(items)] ELSE items[i]]}

\* The reader changes a list it got.  A list that is the session's own list
\* object changes for the session too.
DoChangeList ==
    /\ sess.mutations < MaxMutations
    /\ \E v \in DOMAIN sess.views :
        \E changed \in ListChanges(sess.views[v].items) \ {sess.views[v].items} :
          LET view == sess.views[v] IN
          sess' = [sess EXCEPT
              !.views[v].items = changed,
              !.session.messages =
                  IF view.shared /\ view.kind = "messages" THEN changed ELSE @,
              !.session.tasks =
                  IF view.shared /\ view.kind = "tasks" THEN changed ELSE @,
              !.mutations = @ + 1, !.op = "change"]
    /\ UNCHANGED <<clock, notSession>>

NextSession == DoAddMessage \/ DoAddTask \/ DoReadList \/ DoChangeList

SpecSession == InitSession /\ [][NextSession]_vars

\* C19: the session's messages are the messages added, in call order, and
\* its tasks the tasks added, in call order, whatever a reader did to the
\* lists it was handed; and each list before a step is a prefix of the list
\* after it.
C19_ListsAppendOnly ==
    /\ [](sess.session.messages = sess.added_messages)
    /\ [](sess.session.tasks = sess.added_tasks)
    /\ [][/\ IsPrefix(sess.session.messages, sess'.session.messages)
          /\ IsPrefix(sess.session.tasks, sess'.session.tasks)]_vars

C19_Witness ==
    /\ sess.pc = "running"
    /\ Len(sess.session.messages) = 2
    /\ sess.mutations = 1
    /\ \E v \in DOMAIN sess.views :
          /\ sess.views[v].kind = "messages"
          /\ sess.views[v].items = Reverse(sess.session.messages)

\* C20: last_activity_at is never earlier than created_at; add_message and
\* add_task set it to the time of the call; it never decreases.
C20_LastActivity ==
    /\ [](sess.session.last_activity_at >= sess.session.created_at)
    /\ [][/\ sess'.session.last_activity_at >= sess.session.last_activity_at
          /\ sess'.op \in {"add_message", "add_task"} =>
                sess'.session.last_activity_at = clock']_vars

C20_Witness ==
    /\ sess.pc = "running"
    /\ sess.op = "add_task"
    /\ sess.session.created_at = 1
    /\ sess.session.last_activity_at = 3
    /\ Len(sess.session.messages) = 1

(***************************************************************************)
(* SpecStore: one repository, Backend A or Backend B, holding several      *)
(* sessions that only this process writes.  The caller creates sessions,   *)
(* adds a message to them, and calls save, find_by_id, delete and          *)
(* find_expired; hours pass between the calls.  store.heap holds the       *)
(* caller's Session objects; on Backend A a stored session is one of them. *)
(***************************************************************************)
StoreKeys == 1..(MaxStored + 1)

\* The hours at which the calls of a run are made: some at hour 1, some a
\* day later, some an hour after that.  MaxAgeHours are the max_age_hours
\* of the sweeps.
ClockReadings == <<1, 25, 26>>
MaxAgeHours == {0, 1, 24}

NoStoreCall ==
    [op |-> "none", key |-> 0, found |-> {}, max_age_hours |-> 0,
     raised |-> "none", event |-> "none"]

\* find_by_id of either backend: the session under the key, or NoSession.
StoreLookup(s, key) ==
    IF s.backend = "memory"
    THEN LET ref == MemoryFindById(s.sessions, Uuid(key)) IN
         IF ref = NoRef THEN NoSession ELSE s.heap[ref]
    ELSE RedisFindById(s.redis, Uuid(key))

\* find_expired of either backend, read at the hour now.
StoreExpired(s, max_age_hours, now) ==
    IF s.backend = "memory"
    THEN {s.heap[ref] : ref \in MemoryFindExpired(s.sessions, s.heap, max_age_hours, now)}
    ELSE RedisFindExpired(s.redis, max_age_hours, now)

InitStore ==
    /\ WiringParked
    /\ SweepParked
    /\ BuildParked
    /\ clock = ClockReadings[1]
    /\ TaskParked
    /\ AgentParked
    /\ MgrParked
    /\ RepoParked
    /\ UcParked
    /\ ConcParked
    /\ SessionParked
    /\ ScanParked
    /\ LockParked
    /\ RegistryParked
    /\ \E backend \in {"memory", "redis"} :
          store = [pc |-> "run", backend |-> backend, heap |-> <<>>,
                   sessions |-> [key \in StoreKeys |-> NoRef],
                   redis |-> [key \in StoreKeys |-> NoData],
                   reading |-> 1, next_id |-> 1, last |-> NoStoreCall]

\* Hours pass.
StoreTick ==
    /\ store.reading < Len(ClockReadings)
    /\ clock' = ClockReadings[store.reading + 1]
    /\ store' = [store EXCEPT !.reading = @ + 1, !.last = NoStoreCall]
    /\ UNCHANGED notStore

\* s = Session.create(user_id, provider_config)
StoreCreate ==
    /\ Len(store.heap) < MaxStored
    /\ store' = [store EXCEPT
          !.heap = Append(@, Session(Uuid(Len(store.heap) + 1), "u",
                                     ProviderConfigForOllama, clock)),
          !.last = [NoStoreCall EXCEPT !.op = "create"]]
    /\ UNCHANGED <<clock, notStore>>

\* s.add_message(Message.create_user_message("m")) on one of the objects
StoreTouch ==
    /\ \E h \in 1..Len(store.heap) :
        /\ store.next_id <= MaxTouches
        /\ store' = [store EXCEPT
              !.heap[h] = SessionAddMessage(@,
                             MessageCreate(Uuid(store.next_id), "user", "m",
                                           NoneOutput, clock), clock),
              !.next_id = @ + 1,
              !.last = [NoStoreCall EXCEPT !.op = "add_message"]]
    /\ UNCHANGED <<clock, notStore>>

\* await repository.save(s)
StoreSave ==
    /\ \E h \in 1..Len(store.heap) :
        LET saved == RedisSave(store.redis, store.heap[h]) IN
        store' = [store EXCEPT
           !.sessions = IF store.backend = "memory"
                        THEN MemorySave(@, store.heap, h) ELSE @,
           !.redis = IF store.backend = "redis" THEN saved.redis ELSE @,
           !.last = [NoStoreCall EXCEPT
                        !.op = "save", !.key = SessionKey(store.heap[h].session_id),
                        !.raised = IF store.backend = "redis"
                                   THEN saved.raised ELSE "none"]]
    /\ UNCHANGED <<clock, notStore>>

\* found = await repository.find_by_id(session_id)
StoreFindById ==
    /\ \E key \in StoreKeys :
        LET session == StoreLookup(store, key) IN
        store' = [store EXCEPT
           !.last = [NoStoreCall EXCEPT
                        !.op = "find_by_id", !.key = key,
                        !.found = IF session = NoSession THEN {} ELSE {session}]]
    /\ UNCHANGED <<clock, notStore>>

\* await repository.delete(session_id)
StoreDelete ==
    /\ \E key \in StoreKeys :
        store' = [store EXCEPT
           !.sessions = IF store.backend = "memory"
                        THEN MemoryDelete(@, Uuid(key)) ELSE @,
           !.redis = IF store.backend = "redis"
                     THEN RedisDelete(@, Uuid(key)) ELSE @,
           !.last = [NoStoreCall EXCEPT
                        !.op = "delete", !.key = key,
                        !.event = IF store.backend = "memory"
                                  THEN MemoryDeleteEvent(store.sessions, Uuid(key))
                                  ELSE RedisDeleteEvent(store.redis, Uuid(key))]]
    /\ UNCHANGED <<clock, notStore>>

\* expired = await repository.find_expired(max_age_hours)
StoreFindExpired ==
    /\ \E max_age_hours \in MaxAgeHours :
        store' = [store EXCEPT
           !.last = [NoStoreCall EXCEPT
                        !.op = "find_expired", !.max_age_hours = max_age_hours,
                        !.found = StoreExpired(store, max_age_hours, clock)]]
    /\ UNCHANGED <<clock, notStore>>

NextStore ==
    \/ StoreTick
    \/ StoreCreate
    \/ StoreTouch
    \/ StoreSave
    \/ StoreFindById
    \/ StoreDelete
    \/ StoreFindExpired

SpecStore == InitStore /\ [][NextStore]_vars

\* C22: a delete(id) raises nothing and leaves nothing under id; the
\* sessions under the other ids are as before; a delete of an id with
\* nothing under it changes nothing and is logged as not found; and an id
\* with nothing under it stays so, find_by_id of it reporting not-found,
\* until a save of that id.
C22_DeleteRemoves ==
    [][/\ store'.last.op = "delete"
          => LET key == store'.last.key IN
             /\ store'.last.raised = "none"
             /\ StoreLookup(store', key) = NoSession
             /\ \A other \in StoreKeys \ {key} :
                   StoreLookup(store', other) = StoreLookup(store, other)
             /\ (store'.last.event = "session_delete_not_found")
                   = (StoreLookup(store, key) = NoSession)
             /\ StoreLookup(store, key) = NoSession
                   => /\ store'.sessions = store.sessions
                      /\ store'.redis = store.redis
       /\ \A key \in StoreKeys :
             (/\ StoreLookup(store, key) = NoSession
              /\ ~(store'.last.op = "save" /\ store'.last.key = key))
             => /\ StoreLookup(store', key) = NoSession
                /\ (store'.last.op = "find_by_id" /\ store'.last.key = key)
                      => store'.last.found = {}]_vars

\* A stored session has just been deleted while another one is stored.
C22_Witness ==
    /\ store.last.op = "delete"
    /\ store.last.event = "session_deleted"
    /\ StoreLookup(store, store.last.key) = NoSession
    /\ \E other \in StoreKeys : StoreLookup(store, other) # NoSession

\* C23: find_expired(max_age_hours) returns the stored sessions whose
\* last_activity_at is before now - max_age_hours, every one of them and no
\* other session, and leaves the store as it was.
C23_FindExpiredExact ==
    [][store'.last.op = "find_expired"
       => /\ {SessionKey(session.session_id) : session \in store'.last.found}
               = {key \in StoreKeys :
                    /\ StoreLookup(store, key) # NoSession
                    /\ StoreLookup(store, key).last_activity_at
                          < clock - store'.last.max_age_hours}
          /\ \A session \in store'.last.found :
                session = StoreLookup(store, SessionKey(session.session_id))
          /\ store'.sessions = store.sessions
          /\ store'.redis = store.redis
          /\ store'.heap = store.heap]_vars

\* find_expired(24) has returned a session idle for 25 hours and has left
\* out a stored one idle for 1 hour.
C23_Witness ==
    /\ store.last.op = "find_expired"
    /\ store.last.max_age_hours = 24
    /\ \E old, young \in StoreKeys :
          /\ StoreLookup(store, old) # NoSession
          /\ StoreLookup(store, young) # NoSession
          /\ clock - StoreLookup(store, old).last_activity_at = 25
          /\ clock - StoreLookup(store, young).last_activity_at = 1
          /\ StoreLookup(store, old) \in store.last.found
          /\ StoreLookup(store, young) \notin store.last.found

(***************************************************************************)
(* SpecScan: Backend B over a key space that other writers use as well.    *)
(* Values appear under the session keys (sessions saved by a repository,   *)
(* and values no repository wrote) and vanish (TTL, delete).  The          *)
(* repository answers find_by_id in one step and runs find_expired as its  *)
(* loop does: SCAN pages, then one GET per key of the page.  It is hour    *)
(* 26; the saved sessions were last active at hour 1 or at hour 25.        *)
(***************************************************************************)
ScanKeys == 1..MaxScanKeys

\* data without one of its members
Without(data, member) == [f \in DOMAIN data \ {member} |-> data[f]]

\* The records save writes for a session of this id.
SavedRecords(key) ==
    {SavedRecord(Session(Uuid(key), "u", ProviderConfigForOllama, t)) : t \in {1, 25}}

\* Values no save writes: an empty value, text that is not JSON, a JSON
\* list, a session object without its messages, one whose last_activity_at
\* is not a timestamp, and one whose last_activity_at is a number.
ForeignRecords(key) ==
    LET data == JsonLoads(SavedRecord(Session(Uuid(key), "u", ProviderConfigForOllama, 1))) IN
    {EmptyText,
     [raw |-> "{"],
     JsonDumps([type |-> "list"]),
     JsonDumps(Without(data, "messages")),
     JsonDumps([data EXCEPT !.last_activity_at = [text |-> "yesterday"]]),
     JsonDumps([data EXCEPT !.last_activity_at = [type |-> "int", value |-> 1]])}

NoScanCall == [op |-> "none", key |-> 0, found |-> {}, raised |-> "none"]

InitScan ==
    /\ WiringParked
    /\ SweepParked
    /\ BuildParked
    /\ clock = ClockReadings[3]
    /\ TaskParked
    /\ AgentParked
    /\ MgrParked
    /\ RepoParked
    /\ UcParked
    /\ ConcParked
    /\ SessionParked
    /\ StoreParked
    /\ LockParked
    /\ RegistryParked
    /\ scan = [pc |-> "idle", redis |-> [key \in ScanKeys |-> NoData],
               cutoff_time |-> 0, more |-> FALSE, pending |-> {}, seen |-> {},
               expired |-> {}, raised |-> "none",
               start |-> [key \in ScanKeys |-> NoData], last |-> NoScanCall]

ScanQuiet == scan.pc \in {"idle", "returned", "raised"}

\* The locals of find_expired before its first SCAN.
ScanLocals(s, pc) ==
    [s EXCEPT !.pc = pc, !.cutoff_time = 0, !.more = FALSE, !.pending = {},
              !.seen = {}, !.expired = {}, !.raised = "none",
              !.start = [key \in ScanKeys |-> NoData], !.last = NoScanCall]

\* A value is written under a session key.
ScanPut ==
    /\ ScanQuiet
    /\ \E key \in ScanKeys :
        \E data \in SavedRecords(key) \cup ForeignRecords(key) :
            scan' = [ScanLocals(scan, "idle") EXCEPT !.redis[key] = data]
    /\ UNCHANGED <<clock, notScan>>

\* A key vanishes: its TTL runs out or somebody deletes it.
ScanExpire ==
    /\ \E key \in ScanKeys :
        /\ scan.redis[key] # NoData
        /\ scan' = [scan EXCEPT !.redis[key] = NoData, !.last = NoScanCall]
    /\ UNCHANGED <<clock, notScan>>

\* found = await repository.find_by_id(session_id)
ScanFindById ==
    /\ ScanQuiet
    /\ \E key \in ScanKeys :
        LET raised == RedisFindByIdRaises(scan.redis, Uuid(key))
            session == RedisFindById(scan.redis, Uuid(key)) IN
        scan' = [ScanLocals(scan, "idle") EXCEPT
                    !.last = [op |-> "find_by_id", key |-> key, raised |-> raised,
                              found |-> IF raised # "none" \/ session = NoSession
                                        THEN {} ELSE {session}]]
    /\ UNCHANGED <<clock, notScan>>

\* find_expired(max_age_hours) is called: cutoff_time, expired = [], cursor = 0
ScanBegin ==
    /\ ScanQuiet
    /\ \E max_age_hours \in MaxAgeHours :
        scan' = [ScanLocals(scan, "scan") EXCEPT
                    !.cutoff_time = clock - max_age_hours,
                    !.more = TRUE, !.start = scan.redis]
    /\ UNCHANGED <<clock, notScan>>

\* cursor, keys = await redis.scan(cursor, ...): a page of keys not returned
\* yet; the cursor comes back 0 only with the page that completes the
\* iteration over the keys present.
ScanPage ==
    /\ scan.pc = "scan"
    /\ scan.pending = {}
    /\ scan.more
    /\ LET rest == {key \in ScanKeys : scan.redis[key] # NoData} \ scan.seen IN
       \E keys \in SUBSET rest, cursor \in {0, 1} :
            /\ cursor = 0 => keys = rest
            /\ scan' = [scan EXCEPT !.pending = keys, !.seen = @ \cup keys,
                                    !.more = (cursor # 0)]
    /\ UNCHANGED <<clock, notScan>>

\* One pass of for key in keys: GET, and the try block on what it returns.
ScanRead ==
    /\ scan.pc = "scan"
    /\ \E key \in scan.pending :
        LET data == scan.redis[key]
            read == ScanRecord(data, scan.cutoff_time) IN
        scan' = IF ~HasData(data)
                THEN [scan EXCEPT !.pending = @ \ {key}]
                ELSE IF read.raised # "none"
                THEN [scan EXCEPT !.pc = "raised", !.raised = read.raised]
                ELSE [scan EXCEPT !.pending = @ \ {key},
                                  !.expired = @ \cup read.expired]
    /\ UNCHANGED <<clock, notScan>>

\* if cursor == 0: break; return expired
ScanReturn ==
    /\ scan.pc = "scan"
    /\ scan.pending = {}
    /\ ~scan.more
    /\ scan' = [scan EXCEPT !.pc = "returned"]
    /\ UNCHANGED <<clock, notScan>>

NextScan ==
    \/ ScanPut
    \/ ScanExpire
    \/ ScanFindById
    \/ ScanBegin
    \/ ScanPage
    \/ ScanRead
    \/ ScanReturn

SpecScan == InitScan /\ [][NextScan]_vars

\* C24: on Backend B find_by_id raises nothing whatever is stored under
\* the key, and returns not-found when nothing is stored there or what is
\* stored cannot be read as a session.
C24_FindByIdNeverRaises ==
    scan.pc # "parked" /\ scan.last.op = "find_by_id"
    => /\ scan.last.raised = "none"
       /\ (\/ scan.redis[scan.last.key] = NoData
           \/ RecordRaises(scan.redis[scan.last.key]) # "none")
          => scan.last.found = {}

\* C25: on Backend B find_expired raises nothing whatever the key space
\* holds, and when it returns it has returned every session that was stored
\* readable and expired from its first SCAN to its end.
C25_FindExpiredSkipsBadRecords ==
    scan.pc # "parked"
    => /\ scan.pc # "raised"
       /\ scan.pc = "returned"
          => \A key \in ScanKeys :
                (/\ scan.redis[key] = scan.start[key]
                 /\ HasData(scan.redis[key])
                 /\ RecordRaises(scan.redis[key]) = "none"
                 /\ FromIsoFormat(JsonLoads(scan.redis[key]).last_activity_at)
                       < scan.cutoff_time)
                => DeserializeSession(JsonLoads(scan.redis[key])) \in scan.expired

(***************************************************************************)
(* SpecLock: Backend A called by several coroutines at a time.  Every      *)
(* method runs its body inside async with self._lock.  A coroutine that    *)
(* finds the lock taken, or others waiting for it, waits in line; a        *)
(* release lets the first in line in.  Each coroutine makes one call, on   *)
(* one of the sessions LockSessions.                                       *)
(***************************************************************************)
Coroutines == 1..MaxCoroutines

LockKeys == 1..MaxCoroutines

LockSessions ==
    [key \in LockKeys |-> Session(Uuid(key), "u", ProviderConfigForOllama, 1)]

RepositoryMethods == {"save", "find_by_id", "delete", "find_expired", "count", "clear"}

NoLockCall ==
    [op |-> "none", pc |-> "none", key |-> 0, max_age_hours |-> 0,
     found |-> {}, count |-> 0]

InitLock ==
    /\ WiringParked
    /\ SweepParked
    /\ BuildParked
    /\ clock = ClockReadings[2]
    /\ TaskParked
    /\ AgentParked
    /\ MgrParked
    /\ RepoParked
    /\ UcParked
    /\ ConcParked
    /\ SessionParked
    /\ StoreParked
    /\ ScanParked
    /\ RegistryParked
    /\ lock = [pc |-> "run", locked |-> FALSE, waiters |-> <<>>,
               sessions |-> [key \in LockKeys |-> NoRef],
               calls |-> [c \in Coroutines |-> NoLockCall], waited |-> FALSE]

\* A lock that lets every caller in.
LockOpen(l) == TRUE

\* asyncio.Lock.acquire returns at once when the lock is not taken and
\* nobody waits for it.
LockFree(l) == ~l.locked /\ l.waiters = <<>>

\* A coroutine calls a method of the repository.
LockCall(c) ==
    /\ lock.calls[c].pc = "none"
    /\ \E op \in RepositoryMethods, key \in LockKeys, max_age_hours \in MaxAgeHours :
        lock' = [lock EXCEPT
           !.calls[c] = [NoLockCall EXCEPT
              !.op = op, !.pc = "called",
              !.key = IF op \in {"save", "find_by_id", "delete"} THEN key ELSE 0,
              !.max_age_hours = IF op = "find_expired" THEN max_age_hours ELSE 0]]
    /\ UNCHANGED <<clock, notLock>>

\* async with self._lock: the lock is free, the coroutine goes in.
LockEnter(c) ==
    /\ lock.calls[c].pc = "called"
    /\ LockFree(lock)
    /\ lock' = [lock EXCEPT !.locked = TRUE, !.calls[c].pc = "inside"]
    /\ UNCHANGED <<clock, notLock>>

\* async with self._lock: the lock is not free, the coroutine waits in line.
LockWait(c) ==
    /\ lock.calls[c].pc = "called"
    /\ ~LockFree(lock)
    /\ lock' = [lock EXCEPT !.waiters = Append(@, c), !.calls[c].pc = "waiting",
                            !.waited = TRUE]
    /\ UNCHANGED <<clock, notLock>>

\* The first in line goes in once the lock is released.
LockResume(c) ==
    /\ lock.calls[c].pc = "waiting"
    /\ ~lock.locked
    /\ Head(lock.waiters) = c
    /\ lock' = [lock EXCEPT !.locked = TRUE, !.waiters = Tail(@),
                            !.calls[c].pc = "inside"]
    /\ UNCHANGED <<clock, notLock>>

\* The body of the method, inside the lock.
LockBody(c) ==
    /\ lock.calls[c].pc = "inside"
    /\ LET call == lock.calls[c]
           session_id == Uuid(call.key) IN
       lock' = [lock EXCEPT
          !.sessions =
             CASE call.op = "save" -> MemorySave(@, LockSessions, call.key)
               [] call.op = "delete" -> MemoryDelete(@, session_id)
               [] call.op = "clear" -> MemoryClear(@)
               [] OTHER -> @,
          !.calls[c].found =
             CASE call.op = "find_by_id" ->
                    {MemoryFindById(lock.sessions, session_id)} \ {NoRef}
               [] call.op = "find_expired" ->
                    MemoryFindExpired(lock.sessions, LockSessions,
                                      call.max_age_hours, clock)
               [] OTHER -> {},
          !.calls[c].count =
             IF call.op \in {"count", "clear"} THEN MemoryCount(lock.sessions) ELSE 0,
          !.calls[c].pc = "leaving"]
    /\ UNCHANGED <<clock, notLock>>

\* The end of async with: the lock is released and the method returns.
LockRelease(c) ==
    /\ lock.calls[c].pc = "leaving"
    /\ lock' = [lock EXCEPT !.locked = FALSE, !.calls[c].pc = "done"]
    /\ UNCHANGED <<clock, notLock>>

NextLock ==
    \E c \in Coroutines :
        \/ LockCall(c)
        \/ LockEnter(c)
        \/ LockWait(c)
        \/ LockResume(c)
        \/ LockBody(c)
        \/ LockRelease(c)

SpecLock == InitLock /\ [][NextLock]_vars

\* The coroutines inside the critical section.
InsideLock == {c \in Coroutines : lock.calls[c].pc \in {"inside", "leaving"}}

\* All the coroutines have saved, each a session of its own.
AllSaved ==
    /\ \A c \in Coroutines : lock.calls[c].op = "save" /\ lock.calls[c].pc = "done"
    /\ \A c, d \in Coroutines : c # d => lock.calls[c].key # lock.calls[d].key

\* C26: at most one call of Backend A is inside the critical section at
\* any time, and once N coroutines have each saved a session of its own,
\* whatever their interleaving, the store holds N sessions and every one of
\* them is found under its id.
C26_BackendASerializes ==
    lock.pc # "parked"
    => /\ Cardinality(InsideLock) <= 1
       /\ AllSaved
          => /\ MemoryCount(lock.sessions) = MaxCoroutines
             /\ \A c \in Coroutines :
                   MemoryFindById(lock.sessions, Uuid(lock.calls[c].key))
                      = lock.calls[c].key

\* Every coroutine has saved its session, and one of them had to wait for
\* the lock.
C26_Witness == lock.pc # "parked" /\ AllSaved /\ lock.waited

(***************************************************************************)
(* SpecRegistry: a ToolRegistry.  reg.tools is its _tools dict: under      *)
(* every name a tool or NoTool.  Tools are registered, as _init_tools      *)
(* does, and looked up with get_by_ids.                                    *)
(***************************************************************************)
BaseTool(name) == [tool |-> name]
NoTool == [tool |-> "None"]

\* The names asked for: those of two built-in tools and one of no tool.
RequestedNames == {"context.read", "pipeline.validate", "ghost.tool"}

ToolNames == RegisteredTools \cup RequestedNames

\* The lists of at most MaxIds names, repeated names included.
IdLists == UNION {[1..n -> RequestedNames] : n \in 0..MaxIds}

\* ToolRegistry.register
RegistryRegister(tools, tool) == [tools EXCEPT ![tool.tool] = tool]

\* A lookup that subscripts _tools with every name.
RegistryGetByIdsStrict(tools, tool_ids) ==
    IF \E i \in 1..Len(tool_ids) : tools[tool_ids[i]] = NoTool
    THEN [raised |-> "KeyError", tools |-> <<>>]
    ELSE [raised |-> "none", tools |-> [i \in 1..Len(tool_ids) |-> tools[tool_ids[i]]]]

\* ToolRegistry.get_by_ids:
\* [self._tools[tid] for tid in tool_ids if tid in self._tools]
RegistryGetByIds(tools, tool_ids) ==
    LET tid_in_tools(tid) == tools[tid] # NoTool
        kept == SelectSeq(tool_ids, tid_in_tools) IN
    [raised |-> "none", tools |-> [i \in 1..Len(kept) |-> tools[kept[i]]]]

NoRegistryCall == [op |-> "none", tool_ids |-> <<>>, raised |-> "none", tools |-> <<>>]

InitRegistry ==
    /\ WiringParked
    /\ SweepParked
    /\ BuildParked
    /\ clock = 1
    /\ TaskParked
    /\ AgentParked
    /\ MgrParked
    /\ RepoParked
    /\ UcParked
    /\ ConcParked
    /\ SessionParked
    /\ StoreParked
    /\ ScanParked
    /\ LockParked
    /\ reg = [pc |-> "run", tools |-> [name \in ToolNames |-> NoTool],
              last |-> NoRegistryCall]

\* registry.register(tool), for one of the built-in tools
DoRegister ==
    /\ \E name \in RegisteredTools :
        reg' = [reg EXCEPT !.tools = RegistryRegister(@, BaseTool(name)),
                           !.last = [NoRegistryCall EXCEPT !.op = "register"]]
    /\ UNCHANGED <<clock, notRegistry>>

\* tools = registry.get_by_ids(tool_ids)
DoGetByIds ==
    /\ \E tool_ids \in IdLists :
        LET got == RegistryGetByIds(reg.tools, tool_ids) IN
        reg' = [reg EXCEPT
                   !.last = [op |-> "get_by_ids", tool_ids |-> tool_ids,
                             raised |-> got.raised, tools |-> got.tools]]
    /\ UNCHANGED <<clock, notRegistry>>

NextRegistry ==
    \/ DoRegister
    \/ DoGetByIds

SpecRegistry == InitRegistry /\ [][NextRegistry]_vars

\* The positions of tool_ids, up to position i, whose name is registered.
KnownUpTo(tool_ids, i) == {j \in 1..i : reg.tools[tool_ids[j]] # NoTool}

\* C30: get_by_ids(names) raises nothing and leaves the registry as it
\* was; it returns one tool for every requested name that is registered
\* and none for the others, the k-th registered name of the request giving
\* the k-th tool returned, which is the tool registered under that name.
C30_GetByIdsDropsUnknown ==
    [][reg'.last.op = "get_by_ids"
       => LET tool_ids == reg'.last.tool_ids
              tools == reg'.last.tools IN
          /\ reg'.last.raised = "none"
          /\ reg'.tools = reg.tools
          /\ Len(tools) = Cardinality(KnownUpTo(tool_ids, Len(tool_ids)))
          /\ \A i \in KnownUpTo(tool_ids, Len(tool_ids)) :
                tools[Cardinality(KnownUpTo(tool_ids, i))] = reg.tools[tool_ids[i]]]_vars

\* A request of a registered name, an unregistered one and another
\* registered one has returned the two tools in the order of the request.
C30_Witness ==
    /\ reg.pc # "parked"
    /\ reg.last.op = "get_by_ids"
    /\ reg.last.tool_ids = <<"pipeline.validate", "ghost.tool", "context.read">>
    /\ reg.last.tools = <<BaseTool("pipeline.validate"), BaseTool("context.read")>>

(***************************************************************************)
(* SpecBuild: the message sequence handed to the provider by the two       *)
(* callers of a provider, LangChainAgent (the session manager's path) and  *)
(* LangChainAIAdapter (the use case's path), for one user message.         *)
(***************************************************************************)
MaxHistory == 3             \* messages of the history handed to one call

HistoryRoles == {"user", "assistant"}

\* The histories of one call: chat_history dicts for the agent, Message
\* objects for the adapter, the i-th with content "m" i.
BuildContents == [i \in 1..MaxHistory |-> "m" \o ToString(i)]

AgentHistories ==
    UNION {{[i \in 1..n |-> [role |-> roles[i], content |-> BuildContents[i]]] :
                roles \in [1..n -> HistoryRoles]} : n \in 0..MaxHistory}

AdapterHistories ==
    UNION {{[i \in 1..n |-> Message(i, roles[i], BuildContents[i], 1, EmptyDict)] :
                roles \in [1..n -> HistoryRoles]} : n \in 0..MaxHistory}

\* The active-tool lists of a session: none, a built-in tool, a name that is
\* not registered, and both.
ActiveToolLists ==
    {<<>>, <<"context.read">>, <<"ghost.tool">>, <<"context.read", "pipeline.validate">>}

\* The registry after _init_tools.
BuiltinRegistry ==
    [name \in ToolNames |-> IF name \in RegisteredTools THEN BaseTool(name) ELSE NoTool]

\* LangChainAgent.llm: tools are bound when get_by_ids finds any of the
\* agent's available_tools.
AgentToolsBound(available_tools) ==
    available_tools # <<>> /\ RegistryGetByIds(BuiltinRegistry, available_tools).tools # <<>>

NoBuild ==
    [pc |-> "idle", by |-> "none", system_prompt |-> "", history |-> <<>>,
     tools |-> <<>>, message |-> "", bound |-> FALSE, raised |-> "none",
     messages |-> <<>>]

InitBuild ==
    /\ WiringParked
    /\ SweepParked
    /\ clock = 1
    /\ TaskParked
    /\ AgentParked
    /\ MgrParked
    /\ RepoParked
    /\ UcParked
    /\ ConcParked
    /\ SessionParked
    /\ StoreParked
    /\ ScanParked
    /\ LockParked
    /\ RegistryParked
    /\ build = NoBuild

\* LangChainAgent.invoke up to the first self.llm.ainvoke(messages).
BuildByAgent ==
    /\ build.pc = "idle"
    /\ \E chat_history \in AgentHistories, available_tools \in ActiveToolLists :
          build' = [NoBuild EXCEPT
                       !.pc = "built", !.by = "agent", !.system_prompt = "sys",
                       !.history = chat_history, !.tools = available_tools,
                       !.message = "new",
                       !.bound = AgentToolsBound(available_tools),
                       !.messages = AgentBuildMessages("sys", "new", chat_history)]
    /\ UNCHANGED <<clock, notBuild>>

\* LangChainAIAdapter.invoke up to llm.ainvoke(messages), with the session's
\* system prompt and active tools as SendMessageUseCase passes them.
BuildByAdapter ==
    /\ build.pc = "idle"
    /\ \E conversation_history \in AdapterHistories, available_tools \in ActiveToolLists :
          LET built == AdapterMessages("new", conversation_history, "sys", available_tools) IN
          build' = [NoBuild EXCEPT
                       !.pc = "built", !.by = "adapter", !.system_prompt = "sys",
                       !.history = conversation_history, !.tools = available_tools,
                       !.message = "new",
                       !.bound = (available_tools # <<>>),
                       !.raised = built.raised,
                       !.messages = built.messages]
    /\ UNCHANGED <<clock, notBuild>>

\* The call returns; the next request starts from nothing.
BuildDone ==
    /\ build.pc = "built"
    /\ build' = NoBuild
    /\ UNCHANGED <<clock, notBuild>>

NextBuild == BuildByAgent \/ BuildByAdapter \/ BuildDone

SpecBuild == InitBuild /\ [][NextBuild]_vars

\* The sequence the provider is to get: the system message, the history with
\* each message in its place and role, the new user message.
ProviderRole(role) == IF role = "user" THEN "human" ELSE "ai"

ExpectedMessages(b) ==
    <<SystemMessage(IF b.bound THEN b.system_prompt \o ToolContext(b.tools)
                    ELSE b.system_prompt)>>
        \o [i \in 1..Len(b.history) |->
                [role |-> ProviderRole(b.history[i].role),
                 content |-> b.history[i].content]]
        \o <<HumanMessage(b.message)>>

\* C31: the sequence sent to the provider is one system message (the system
\* prompt, with the tool names appended when tools are bound), then every
\* prior user and assistant message in its order and with its role, then the
\* new user message.
C31_MessageSequence ==
    build.pc = "built" => build.messages = ExpectedMessages(build)

(***************************************************************************)
(* SpecSweep: cleanup_expired_sessions over Backend A while a send-message *)
(* call on one of the stored sessions is in flight.  Each awaits the       *)
(* repository, so the steps of the two interleave at those points.         *)
(***************************************************************************)
MaxSwept == 2               \* sessions the repository holds in SpecSweep
MaxSends == 1               \* send-message calls made beside the sweep

SweepKeys == 1..MaxSwept

\* settings.session.max_session_age_hours
max_session_age_hours == 24

NoSweeper == [pc |-> "idle", expired |-> <<>>, pending |-> <<>>, count |-> 0]
NoSender == [pc |-> "idle", key |-> 0, ref |-> NoRef, taskIdx |-> 0, raised |-> "none"]

InitSweep ==
    /\ WiringParked
    /\ clock = ClockReadings[1]
    /\ TaskParked
    /\ AgentParked
    /\ MgrParked
    /\ RepoParked
    /\ UcParked
    /\ ConcParked
    /\ SessionParked
    /\ StoreParked
    /\ ScanParked
    /\ LockParked
    /\ RegistryParked
    /\ BuildParked
    /\ sweep = [pc |-> "run", heap |-> <<>>,
                sessions |-> [key \in SweepKeys |-> NoRef],
                reading |-> 1, sends |-> 0, next_id |-> 1,
                sweeper |-> NoSweeper, sender |-> NoSender]

\* The refs of a set of stored sessions as a list, in the order of the
\* repository's dict (the order in which the keys were first saved).
RECURSIVE RefList(_)
RefList(refs) ==
    IF refs = {} THEN <<>>
    ELSE LET first == CHOOSE r \in refs : \A other \in refs : r <= other IN
         <<first>> \o RefList(refs \ {first})

\* Whether find_expired would return the stored object now.
ExpiredNow(session, now) == session.last_activity_at < now - max_session_age_hours

\* Hours pass.
SweepTick ==
    /\ sweep.reading < Len(ClockReadings)
    /\ clock' = ClockReadings[sweep.reading + 1]
    /\ sweep' = [sweep EXCEPT !.reading = @ + 1]
    /\ UNCHANGED notSweep

\* A session is created and saved (CreateSessionUseCase.execute).
SweepCreate ==
    /\ Len(sweep.heap) < MaxSwept
    /\ LET ref == Len(sweep.heap) + 1
           heap == Append(sweep.heap,
                          Session(Uuid(ref), "u", ProviderConfigForOllama, clock)) IN
       sweep' = [sweep EXCEPT !.heap = heap,
                              !.sessions = MemorySave(@, heap, ref)]
    /\ UNCHANGED <<clock, notSweep>>

\* cleanup_expired_sessions up to the return of
\* await repository.find_expired(max_session_age_hours).
SweepFindExpired ==
    /\ sweep.sweeper.pc = "idle"
    /\ LET expired == RefList(MemoryFindExpired(sweep.sessions, sweep.heap,
                                                max_session_age_hours, clock)) IN
       sweep' = [sweep EXCEPT !.sweeper =
                    [pc |-> "deleting", expired |-> expired, pending |-> expired,
                     count |-> 0]]
    /\ UNCHANGED <<clock, notSweep>>

\* One pass of for session in expired: await repository.delete(session.session_id)
SweepDelete ==
    /\ sweep.sweeper.pc = "deleting"
    /\ sweep.sweeper.pending # <<>>
    /\ LET session == sweep.heap[Head(sweep.sweeper.pending)] IN
       sweep' = [sweep EXCEPT
                    !.sessions = MemoryDelete(@, session.session_id),
                    !.sweeper.pending = Tail(@)]
    /\ UNCHANGED <<clock, notSweep>>

\* The for loop has ended: return len(expired).
SweepReturn ==
    /\ sweep.sweeper.pc = "deleting"
    /\ sweep.sweeper.pending = <<>>
    /\ sweep' = [sweep EXCEPT !.sweeper =
                    [NoSweeper EXCEPT !.count = Len(sweep.sweeper.expired)]]
    /\ UNCHANGED <<clock, notSweep>>

\* SendMessageUseCase.execute up to the await of the AI service: find_by_id,
\* then the user message and the started task added to the object found.
SenderBegin ==
    /\ sweep.sender.pc = "idle"
    /\ sweep.sends < MaxSends
    /\ \E key \in SweepKeys :
        LET ref == MemoryFindById(sweep.sessions, Uuid(key)) IN
        IF ref = NoRef
        THEN sweep' = [sweep EXCEPT
                          !.sends = @ + 1,
                          !.sender = [NoSender EXCEPT !.key = key,
                                                      !.raised = "ValueError"]]
        ELSE LET session == UcOpen(sweep.heap[ref], "q", "general",
                                   Uuid(sweep.next_id), Uuid(sweep.next_id), clock) IN
             sweep' = [sweep EXCEPT
                          !.heap[ref] = session,
                          !.sends = @ + 1,
                          !.next_id = @ + 1,
                          !.sender = [pc |-> "invoking", key |-> key, ref |-> ref,
                                      taskIdx |-> Len(session.tasks),
                                      raised |-> "none"]]
    /\ UNCHANGED <<clock, notSweep>>

\* The AI service returns: the assistant message, task.succeed, and the
\* save of the finally block.
SenderReturns ==
    /\ sweep.sender.pc = "invoking"
    /\ LET ref == sweep.sender.ref
           heap == [sweep.heap EXCEPT ![ref] =
                        UcSucceed(@, sweep.sender.taskIdx, "a",
                                  Uuid(sweep.next_id), clock)] IN
       sweep' = [sweep EXCEPT
                    !.heap = heap,
                    !.sessions = MemorySave(@, heap, ref),
                    !.next_id = @ + 1,
                    !.sender = [NoSender EXCEPT !.key = sweep.sender.key]]
    /\ UNCHANGED <<clock, notSweep>>

\* The AI service raises: task.fail, the save of the finally block, and the
\* exception goes on to the caller.
SenderRaises ==
    /\ sweep.sender.pc = "invoking"
    /\ LET ref == sweep.sender.ref
           heap == [sweep.heap EXCEPT ![ref] =
                        UcFail(@, sweep.sender.taskIdx, "boom", clock)] IN
       sweep' = [sweep EXCEPT
                    !.heap = heap,
                    !.sessions = MemorySave(@, heap, ref),
                    !.sender = [NoSender EXCEPT !.key = sweep.sender.key,
                                                !.raised = "boom"]]
    /\ UNCHANGED <<clock, notSweep>>

NextSweep ==
    \/ SweepTick
    \/ SweepCreate
    \/ SweepFindExpired
    \/ SweepDelete
    \/ SweepReturn
    \/ SenderBegin
    \/ SenderReturns
    \/ SenderRaises

SpecSweep == InitSweep /\ [][NextSweep]_vars

MaxRequests == 4            \* requests the process serves
MaxWired == 2               \* sessions the requests create

WireKeys == 1..(MaxWired + 1)

\* InMemorySessionRepository.__init__: self._sessions = {}
NewMemoryRepository == [key \in WireKeys |-> NoRef]

\* create_session_repository: what the backend setting makes of a call.  A
\* memory repository is a new object with a map of its own; a Redis
\* repository is a new client of the one server.
CreateSessionRepository(w) ==
    IF w.backend = "redis" THEN w
    ELSE [w EXCEPT !.repositories = Append(@, NewMemoryRepository)]

\* A process that builds its repository once and hands the same one to
\* every request.
GetSessionRepositoryShared(w) ==
    IF w.backend = "redis" \/ w.repositories # <<>> THEN w
    ELSE [w EXCEPT !.repositories = <<NewMemoryRepository>>]

\* get_session_repository, as Depends calls it for a request.
GetSessionRepository(w) == CreateSessionRepository(w)

NoWireCall == [op |-> "none", key |-> 0, found |-> FALSE, raised |-> "none"]

InitWiring ==
    /\ clock = 1
    /\ TaskParked
    /\ AgentParked
    /\ MgrParked
    /\ RepoParked
    /\ UcParked
    /\ ConcParked
    /\ SessionParked
    /\ StoreParked
    /\ ScanParked
    /\ LockParked
    /\ RegistryParked
    /\ BuildParked
    /\ SweepParked
    /\ \E backend \in {"memory", "redis"} :
          wiring = [pc |-> "idle", backend |-> backend, heap |-> <<>>,
                    repositories |-> <<>>,
                    redis |-> [key \in WireKeys |-> NoData],
                    requests |-> 0, created |-> {}, last |-> NoWireCall]

\* A request arrives and its dependencies are resolved: the use case gets
\* the repository get_session_repository returns.
WireResolve ==
    /\ wiring.pc = "idle"
    /\ wiring.requests < MaxRequests
    /\ \E op \in {"create", "send"} :
          wiring' = [GetSessionRepository(wiring) EXCEPT
                        !.pc = op, !.requests = @ + 1, !.last = NoWireCall]
    /\ UNCHANGED <<clock, notWiring>>

\* CreateSessionUseCase.execute on the request's repository.
WireCreateSession ==
    /\ wiring.pc = "create"
    /\ IF Len(wiring.heap) >= MaxWired
       THEN wiring' = [wiring EXCEPT !.pc = "idle"]
       ELSE LET ref == Len(wiring.heap) + 1
                session == Session(Uuid(ref), "u", ProviderConfigForOllama, clock)
                heap == Append(wiring.heap, session)
                mine == Len(wiring.repositories) IN
            wiring' = [wiring EXCEPT
               !.pc = "idle", !.heap = heap,
               !.repositories = IF wiring.backend = "memory"
                                THEN [@ EXCEPT ![mine] = MemorySave(@, heap, ref)]
                                ELSE @,
               !.redis = IF wiring.backend = "redis"
                         THEN RedisSave(@, session).redis ELSE @,
               !.created = @ \cup {ref},
               !.last = [NoWireCall EXCEPT !.op = "create", !.key = ref]]
    /\ UNCHANGED <<clock, notWiring>>

\* SendMessageUseCase.execute on the request's repository, up to the check
\* of what find_by_id returned.
WireSendMessage ==
    /\ wiring.pc = "send"
    /\ \E key \in WireKeys :
        LET mine == Len(wiring.repositories)
            found ==
                IF wiring.backend = "memory"
                THEN MemoryFindById(wiring.repositories[mine], Uuid(key)) # NoRef
                ELSE RedisFindById(wiring.redis, Uuid(key)) # NoSession IN
        wiring' = [wiring EXCEPT
           !.pc = "idle",
           !.last = [op |-> "send", key |-> key, found |-> found,
                     raised |-> IF found THEN "none" ELSE "ValueError"]]
    /\ UNCHANGED <<clock, notWiring>>

NextWiring == WireResolve \/ WireCreateSession \/ WireSendMessage

SpecWiring == InitWiring /\ [][NextWiring]_vars

\* C38: with the memory backend, a session created by the create-session
\* use case through the API's dependencies is resolved by a later
\* send-message request of the same process.
C38_MemoryBackendShared ==
    (/\ wiring.backend = "memory"
     /\ wiring.last.op = "send"
     /\ wiring.last.key \in wiring.created) => wiring.last.found

====
